---------------------------- MODULE Spec2Model ----------------------------
(***************************************************************************)
(* weight-inspect: canonical values, structural hash, structural diff, the *)
(* exit status of the diff command and the GGUF and safetensors header     *)
(* parsers, as state machines over bounded inputs.                         *)
(*                                                                         *)
(* Numbers.  The program computes with u8..u64, i64 and the bit patterns   *)
(* of f32/f64.  They are represented exactly, as natural numbers written   *)
(* in base 2^8, least significant digit first, with no leading zero digit  *)
(* (zero is the empty sequence).  An i64 is represented by its 64-bit      *)
(* two's complement pattern, a float by its IEEE-754 bit pattern.          *)
(*                                                                         *)
(* Text.  A Rust String / &str is the sequence of its Unicode code points. *)
(***************************************************************************)
EXTENDS Integers, Sequences, FiniteSets, TLC

VARIABLES
    \* canonical value encode / decode (types.rs)
    vpc, val, val2, token, token2, decoded, compared,
    \* two artifacts under construction, their hashes and their diff
    pc, a, b, todo_a, todo_b, order_a, order_b, edits, hash_a, hash_b, result,
    \* the diff subcommand: its flags, the status the process exits with and
    \* the steps it has run
    fail_on_diff, format_arg, exit_status, steps,
    \* parse_gguf reading a byte stream
    gpc, input, pos, version, tensor_count, metadata_kv_count,
    metadata, tensors, kv_read, tensors_read, allocs, overflow_checks, outcome,
    \* parse_safetensors reading a byte stream
    spc, st_input, st_pos, st_allocs, header_size, obj, entries_read,
    st_metadata, st_tensors, st_outcome

valueVars == <<vpc, val, val2, token, token2, decoded, compared>>
cliVars   == <<fail_on_diff, format_arg, exit_status, steps>>
artVars   == <<pc, a, b, todo_a, todo_b, order_a, order_b, edits,
               hash_a, hash_b, result, cliVars>>
ggufVars  == <<gpc, input, pos, version, tensor_count, metadata_kv_count,
               metadata, tensors, kv_read, tensors_read, allocs,
               overflow_checks, outcome>>
stVars    == <<spc, st_input, st_pos, st_allocs, header_size, obj, entries_read,
               st_metadata, st_tensors, st_outcome>>
vars      == <<valueVars, artVars, ggufVars, stVars>>

---------------------------------------------------------------------------
(* Natural numbers of any size.                                            *)

Radix == 2^8

\* TLC evaluates the arguments of an operator only when they are used; a
\* recursion that passes a value on evaluates it first.
Evaluated(x) == x = x

MaxOf(x, y) == IF x >= y THEN x ELSE y
MinOf(x, y) == IF x <= y THEN x ELSE y

\* the digits of d up to its most significant digit that is not zero
Norm(d) ==
    LET nonzero == {i \in 1..Len(d) : d[i] # 0}
    IN  IF nonzero = {} THEN <<>>
        ELSE SubSeq(d, 1, CHOOSE i \in nonzero : \A j \in nonzero : j <= i)

\* only for numbers below 2^31
FromInt(n) == Norm([i \in 1..4 |-> (n \div Radix^(i - 1)) % Radix])

Digit(d, i) == IF i <= Len(d) THEN d[i] ELSE 0

\* only for numbers below 2^31
ToInt(d) ==
    Digit(d, 1) + Radix * Digit(d, 2) + Radix^2 * Digit(d, 3) + Radix^3 * Digit(d, 4)

\* x < y: y is longer, or they differ first (from the top) at a digit where x
\* is less
BigLess(x, y) ==
    \/ Len(x) < Len(y)
    \/ /\ Len(x) = Len(y)
       /\ \E i \in 1..Len(x) :
             /\ x[i] < y[i]
             /\ \A j \in (i + 1)..Len(x) : x[j] = y[j]

BigLeq(x, y) == x = y \/ BigLess(x, y)

\* one round of carries over digits that may exceed Radix - 1: every digit
\* keeps its low byte and takes what the digit below carries
CarryRound(c) ==
    [k \in 1..(Len(c) + 1) |->
        (IF k <= Len(c) THEN c[k] % Radix ELSE 0)
        + (IF k > 1 THEN c[k - 1] \div Radix ELSE 0)]

\* among digits that are at most Radix, the carry into digit k: 1 when a digit
\* below is Radix and every digit between is Radix - 1 or Radix
CarryInto(d, k) ==
    IF \E j \in 1..(k - 1) :
          d[j] >= Radix /\ \A m \in (j + 1)..(k - 1) : d[m] >= Radix - 1
    THEN 1 ELSE 0

\* the number whose digits c (each below 2^31) are given with their carries
\* still to be taken: four rounds bring every digit to Radix at most
Canon(c) ==
    LET d == CarryRound(CarryRound(CarryRound(CarryRound(c))))
    IN  Norm([k \in 1..Len(d) |-> (d[k] + CarryInto(d, k)) % Radix])

BigAdd(x, y) ==
    IF x = <<>> THEN y
    ELSE IF y = <<>> THEN x
    ELSE Canon([k \in 1..MaxOf(Len(x), Len(y)) |-> Digit(x, k) + Digit(y, k)])

\* the borrow into digit k of x - y: 1 when a digit of x below is less than
\* that of y and no digit of x between is greater than that of y
BorrowInto(x, y, k) ==
    IF \E j \in 1..(k - 1) :
          /\ x[j] < Digit(y, j)
          /\ \A m \in (j + 1)..(k - 1) : x[m] <= Digit(y, m)
    THEN 1 ELSE 0

\* x - y, for y <= x
BigSub(x, y) ==
    IF x = <<>> \/ y = <<>> THEN x
    ELSE Norm([k \in 1..Len(x) |->
                 (x[k] - Digit(y, k) - BorrowInto(x, y, k) + Radix) % Radix])

\* x * k, for k < 2^23
MulDigit(x, k) ==
    IF x = <<>> \/ k = 0 THEN <<>> ELSE Canon([i \in 1..Len(x) |-> x[i] * k])

\* the sum of x[i] * y[k + 1 - i] for i in lo..hi
RECURSIVE ColumnSum(_, _, _, _, _)
ColumnSum(x, y, k, lo, hi) ==
    IF lo > hi THEN 0
    ELSE IF lo = hi THEN x[lo] * y[k + 1 - lo]
    ELSE ColumnSum(x, y, k, lo, (lo + hi) \div 2)
         + ColumnSum(x, y, k, (lo + hi) \div 2 + 1, hi)

\* long multiplication: the sums of the columns, then the carries
BigMul(x, y) ==
    IF x = <<>> \/ y = <<>> THEN <<>>
    ELSE Canon([k \in 1..(Len(x) + Len(y) - 1) |->
                  ColumnSum(x, y, k, MaxOf(1, k + 1 - Len(y)), MinOf(k, Len(x)))])

\* Radix^m mod k, for k < 2^15
RECURSIVE PowMod(_, _)
PowMod(m, k) ==
    IF m = 0 THEN 1 % k
    ELSE IF m = 1 THEN Radix % k
    ELSE (PowMod(m \div 2, k) * PowMod(m - m \div 2, k)) % k

\* the number of the digits lo..hi of x, mod k, for k < 2^15
RECURSIVE RemOf(_, _, _, _)
RemOf(x, lo, hi, k) ==
    IF lo > hi THEN 0
    ELSE IF lo = hi THEN x[lo] % k
    ELSE (RemOf(x, (lo + hi) \div 2 + 1, hi, k) * PowMod((lo + hi) \div 2 - lo + 1, k)
          + RemOf(x, lo, (lo + hi) \div 2, k)) % k

\* quotient and remainder of x by a small k (k < 2^15): long division, every
\* digit of the quotient from the remainder of the digits above it
BigDivSmall(x, k) ==
    IF x = <<>> THEN <<>>
    ELSE Norm([i \in 1..Len(x) |-> (RemOf(x, i + 1, Len(x), k) * Radix + x[i]) \div k])
BigModSmall(x, k) == IF x = <<>> THEN 0 ELSE RemOf(x, 1, Len(x), k)

Pow2(n) == [i \in 1..(n \div 8) |-> 0] \o <<2^(n % 8)>>

\* x mod 2^(8 * nbytes): what a wrapping operation keeps
Wrap(x, nbytes) == Norm(SubSeq(x, 1, MinOf(Len(x), nbytes)))

\* floor(x / 2^n)
ShiftRight(x, n) ==
    LET q == n \div 8
    IN  IF q >= Len(x) THEN <<>>
        ELSE BigDivSmall(SubSeq(x, q + 1, Len(x)), 2^(n % 8))

U64_MAX == BigSub(Pow2(64), FromInt(1))
I64_MAX == BigSub(Pow2(63), FromInt(1))
U32_MAX == BigSub(Pow2(32), FromInt(1))

Reverse(s) == [i \in 1..Len(s) |-> s[Len(s) + 1 - i]]

\* the decimal digits of x, least significant first, four at a time; the last
\* four may end in zeros
RECURSIVE DecimalRev(_)
DecimalRev(x) ==
    IF x = <<>> THEN <<>>
    ELSE [i \in 1..4 |-> 48 + ((BigModSmall(x, 10000) \div 10^(i - 1)) % 10)]
         \o DecimalRev(BigDivSmall(x, 10000))

\* decimal digits (code points '0'..'9') of a natural number
Decimal(x) ==
    IF x = <<>> THEN <<48>>
    ELSE LET rev  == DecimalRev(x)
             last == CHOOSE i \in 1..Len(rev) :
                        rev[i] # 48 /\ \A j \in (i + 1)..Len(rev) : rev[j] = 48
         IN  Reverse(SubSeq(rev, 1, last))

\* index of the highest set bit of n > 0 (n < 2^31)
HighBit(n) == Cardinality({e \in 1..30 : 2^e <= n})

\* number of binary digits of x
BitLen(x) == IF x = <<>> THEN 0 ELSE 8 * (Len(x) - 1) + HighBit(x[Len(x)]) + 1

\* x * 2^n
ShiftLeft(x, n) ==
    IF x = <<>> THEN <<>>
    ELSE [i \in 1..(n \div 8) |-> 0] \o MulDigit(x, 2^(n % 8))

\* quotient and remainder of x by y (y # 0): long division, digit by digit
RECURSIVE DivDigits(_, _, _, _, _)
DivDigits(x, y, i, quo, rem) ==
    IF i = 0 THEN [q |-> Norm(quo), r |-> rem]
    ELSE LET cur == Norm(<<x[i]>> \o rem)
             d   == CHOOSE k \in 0..(Radix - 1) :
                        /\ BigLeq(MulDigit(y, k), cur)
                        /\ BigLess(cur, BigAdd(MulDigit(y, k), y))
             nxt == BigSub(cur, MulDigit(y, d))
         IN  IF Evaluated(nxt)
             THEN DivDigits(x, y, i - 1, <<d>> \o quo, nxt)
             ELSE [q |-> <<>>, r |-> <<>>]

BigDivMod(x, y) == DivDigits(x, y, Len(x), <<>>, <<>>)

RECURSIVE Pow10(_)
Pow10(n) ==
    IF n = 0 THEN FromInt(1)
    ELSE IF n = 1 THEN FromInt(10)
    ELSE BigMul(Pow10(n \div 2), Pow10(n - n \div 2))

---------------------------------------------------------------------------
(* Text: code points.                                                      *)

QUOTE     == 34    \* '"'
BACKSLASH == 92    \* '\\'
NEWLINE   == 10    \* '\n'
CR        == 13    \* '\r'
TAB       == 9     \* '\t'

Str_null  == <<110, 117, 108, 108>>          \* "null"
Str_true  == <<116, 114, 117, 101>>          \* "true"
Str_false == <<102, 97, 108, 115, 101>>      \* "false"
Str_f32   == <<102, 51, 50, 58>>             \* "f32:"

is_ascii_control(c) == c <= 31 \/ c = 127
is_ascii_graphic(c) == 33 <= c /\ c <= 126
IsDigit(c)          == 48 <= c /\ c <= 57
IsHexDigit(c)       == IsDigit(c) \/ (97 <= c /\ c <= 102) \/ (65 <= c /\ c <= 70)
HexValue(c)         == IF IsDigit(c) THEN c - 48
                       ELSE IF c >= 97 THEN c - 87 ELSE c - 55
HexChar(d)          == IF d < 10 THEN 48 + d ELSE 87 + d

\* the number of hexadecimal digits of n (n < 2^28), 1 for 0
HexLen(n) == Cardinality({i \in 1..6 : 16^i <= n}) + 1

\* format!("{:04x}", n): lower-case hexadecimal, zero-padded to at least 4 digits
Hex04(n) ==
    [i \in 1..MaxOf(4, HexLen(n)) |->
        HexChar((n \div 16^(MaxOf(4, HexLen(n)) - i)) % 16)]

StartsWith(s, p) == Len(s) >= Len(p) /\ SubSeq(s, 1, Len(p)) = p
Contains(s, c)   == \E i \in 1..Len(s) : s[i] = c

\* str::cmp / String::cmp: byte-wise lexicographic, which on UTF-8 is the
\* lexicographic order of the code points
\* s < t: at the first position where they differ, s has ended or has the
\* lesser code point
StrLess(s, t) ==
    \E i \in 1..Len(t) :
        /\ \A j \in 1..(i - 1) : j <= Len(s) /\ s[j] = t[j]
        /\ (i > Len(s) \/ s[i] < t[i])

RECURSIVE Join(_, _)
Join(items, sep) ==
    IF items = <<>> THEN <<>>
    ELSE IF Len(items) = 1 THEN items[1]
    ELSE Join(SubSeq(items, 1, Len(items) \div 2), sep) \o sep
         \o Join(SubSeq(items, Len(items) \div 2 + 1, Len(items)), sep)

Flatten(parts) == Join(parts, <<>>)

---------------------------------------------------------------------------
(* Floating point.  An f64 is [sign, exp, mant] with the 11-bit biased     *)
(* exponent and the 52-bit fraction; an f32 has an 8-bit exponent and a    *)
(* 23-bit fraction.                                                        *)

F64(sign, exp, mant) == [sign |-> sign, exp |-> exp, mant |-> mant]
F32(sign, exp, mant) == [sign |-> sign, exp |-> exp, mant |-> mant]

\* the quiet NaN f64::NAN
NaN == F64(0, 2047, Pow2(51))

\* x mod 2^n
LowBits(x, n) == BigSub(x, ShiftLeft(ShiftRight(x, n), n))

\* f64::to_bits
f64_to_bits(f) ==
    BigAdd(BigAdd(ShiftLeft(FromInt(f.sign), 63), ShiftLeft(FromInt(f.exp), 52)),
           f.mant)

\* f64::from_bits
f64_from_bits(bits) ==
    F64(ToInt(ShiftRight(bits, 63)),
        ToInt(LowBits(ShiftRight(bits, 52), 11)),
        LowBits(bits, 52))

\* f32::from_bits / f32::from_le_bytes
f32_from_bits(bits) ==
    F32(ToInt(ShiftRight(bits, 31)),
        ToInt(LowBits(ShiftRight(bits, 23), 8)),
        ToInt(LowBits(bits, 23)))

\* impl From<f32> for f64: the exact widening conversion
f32_into_f64(x) ==
    IF x.exp = 255
    THEN \* infinity, or a NaN (the payload moves up, the result is quiet)
         F64(x.sign, 2047,
             IF x.mant = 0 THEN <<>>
             ELSE BigAdd(ShiftLeft(FromInt(x.mant % 2^22), 29), Pow2(51)))
    ELSE IF x.exp = 0
    THEN IF x.mant = 0 THEN F64(x.sign, 0, <<>>)
         ELSE \* subnormal f32: mant * 2^-149, normal as an f64
              LET h == HighBit(x.mant)
              IN  F64(x.sign, h - 149 + 1023,
                      ShiftLeft(FromInt(x.mant - 2^h), 52 - h))
    ELSE F64(x.sign, x.exp - 127 + 1023, ShiftLeft(FromInt(x.mant), 29))

---------------------------------------------------------------------------
(* CanonicalValue (types.rs).  The payload of every integer variant is an  *)
(* i64, the payload of Float and of Float32 is an f64.                     *)

IntTags == {"Int", "Uint8", "Int8", "Uint16", "Int16",
            "Uint32", "Int32", "Uint64", "Int64"}

Null           == [tag |-> "Null"]
Bool(bv)       == [tag |-> "Bool", b |-> bv]
IntValue(t, i) == [tag |-> t, i |-> i]
Float(f)       == [tag |-> "Float", f |-> f]
Float32(f)     == [tag |-> "Float32", f |-> f]
String(s)      == [tag |-> "String", s |-> s]
Array(items)   == [tag |-> "Array", items |-> items]

\* equality with floats compared as numbers (IEEE 754): NaN is unequal to
\* itself and 0.0 equals -0.0
RECURSIVE CanonicalValue_eq_ieee(_, _)
CanonicalValue_eq_ieee(x, y) ==
    LET is_nan(f) == f.exp = 2047 /\ f.mant # <<>>
        is_zero(f) == f.exp = 0 /\ f.mant = <<>>
        float_eq(f, g) == /\ ~is_nan(f) /\ ~is_nan(g)
                          /\ (f = g \/ (is_zero(f) /\ is_zero(g)))
    IN  CASE x.tag \in {"Float", "Float32"} /\ y.tag = x.tag -> float_eq(x.f, y.f)
          [] x.tag = "Array" /\ y.tag = "Array" ->
                /\ Len(x.items) = Len(y.items)
                /\ \A i \in 1..Len(x.items) :
                        CanonicalValue_eq_ieee(x.items[i], y.items[i])
          [] OTHER -> x = y

\* equality that looks at the payload of an integer and not at its variant
RECURSIVE CanonicalValue_eq_by_payload(_, _)
CanonicalValue_eq_by_payload(x, y) ==
    CASE x.tag \in IntTags /\ y.tag \in IntTags -> x.i = y.i
      [] x.tag = "Array" /\ y.tag = "Array" ->
            /\ Len(x.items) = Len(y.items)
            /\ \A i \in 1..Len(x.items) :
                  CanonicalValue_eq_by_payload(x.items[i], y.items[i])
      [] OTHER -> x = y

\* impl PartialEq for CanonicalValue
RECURSIVE CanonicalValue_eq(_, _)
CanonicalValue_eq(x, y) ==
    CASE x.tag = "Null" /\ y.tag = "Null" -> TRUE
      [] x.tag = "Bool" /\ y.tag = "Bool" -> x.b = y.b
      [] x.tag \in IntTags /\ y.tag = x.tag -> x.i = y.i
      [] x.tag = "Float" /\ y.tag = "Float" ->
            f64_to_bits(x.f) = f64_to_bits(y.f)
      [] x.tag = "String" /\ y.tag = "String" -> x.s = y.s
      [] x.tag = "Array" /\ y.tag = "Array" ->
            /\ Len(x.items) = Len(y.items)
            /\ \A i \in 1..Len(x.items) :
                  CanonicalValue_eq(x.items[i], y.items[i])
      [] x.tag = "Float32" /\ y.tag = "Float32" ->
            f64_to_bits(x.f) = f64_to_bits(y.f)
      [] OTHER -> FALSE

\* i64::to_string of the value with two's complement pattern p
i64_to_string(p) ==
    IF BigLeq(p, I64_MAX) THEN Decimal(p)
    ELSE <<45>> \o Decimal(BigSub(Pow2(64), p))

\* escape_string: one character
escape_char(c) ==
    CASE c = QUOTE -> <<BACKSLASH, QUOTE>>
      [] c = BACKSLASH -> <<BACKSLASH, BACKSLASH>>
      [] c = NEWLINE -> <<BACKSLASH, 110>>
      [] c = CR -> <<BACKSLASH, 114>>
      [] c = TAB -> <<BACKSLASH, 116>>
      [] c \notin {QUOTE, BACKSLASH, NEWLINE, CR, TAB} /\ is_ascii_control(c) ->
            <<BACKSLASH, 117>> \o Hex04(c)
      [] ~is_ascii_control(c) /\ c \notin {QUOTE, BACKSLASH}
         /\ (is_ascii_graphic(c) \/ c = 32) -> <<c>>
      [] OTHER -> <<BACKSLASH, 117>> \o Hex04(c)

\* escape_string: for c in s.chars(), in order
escape_string(s) == Flatten([i \in 1..Len(s) |-> escape_char(s[i])])

\* CanonicalSerializer::serialize_value
RECURSIVE serialize_value(_)
serialize_value(value) ==
    CASE value.tag = "Null" -> Str_null
      [] value.tag = "Bool" -> (IF value.b THEN Str_true ELSE Str_false)
      [] value.tag = "Float" -> Decimal(f64_to_bits(value.f))
      [] value.tag = "String" -> <<QUOTE>> \o escape_string(value.s) \o <<QUOTE>>
      [] value.tag = "Array" ->
            <<91>> \o Join([i \in 1..Len(value.items) |->
                              serialize_value(value.items[i])], <<44>>) \o <<93>>
      [] value.tag = "Float32" -> Str_f32 \o Decimal(f64_to_bits(value.f))
      [] OTHER -> i64_to_string(value.i)

\* Option / Result
None      == [some |-> FALSE]
Some(x)   == [some |-> TRUE, v |-> x]

\* the number that decimal digits write: that of the front half, times ten
\* to the length of the back half, plus that of the back half
RECURSIVE FromDecimal(_)
FromDecimal(digits) ==
    IF digits = <<>> THEN <<>>
    ELSE IF Len(digits) = 1 THEN FromInt(digits[1] - 48)
    ELSE BigAdd(BigMul(FromDecimal(SubSeq(digits, 1, Len(digits) \div 2)),
                       Pow10(Len(digits) - Len(digits) \div 2)),
                FromDecimal(SubSeq(digits, Len(digits) \div 2 + 1, Len(digits))))

AllDigits(s) == \A i \in 1..Len(s) : IsDigit(s[i])

\* str::parse::<i64>: [+-]? digit+, in range; the result is the pattern
i64_of_magnitude(negative, n) ==
    IF negative
    THEN (IF BigLeq(n, Pow2(63))
          THEN Some(IF n = <<>> THEN <<>> ELSE BigSub(Pow2(64), n))
          ELSE None)
    ELSE IF BigLeq(n, I64_MAX) THEN Some(n) ELSE None

parse_i64(s) ==
    LET signed == s # <<>> /\ s[1] \in {43, 45}
        digits == IF signed THEN Tail(s) ELSE s
    IN  IF digits = <<>> \/ ~AllDigits(digits) THEN None
        ELSE i64_of_magnitude(signed /\ s[1] = 45, FromDecimal(digits))

\* str::parse::<u32>: +? digit+, in range
u32_of_magnitude(n) == IF BigLeq(n, U32_MAX) THEN Some(n) ELSE None

parse_u32(s) ==
    LET digits == IF s # <<>> /\ s[1] = 43 THEN Tail(s) ELSE s
    IN  IF digits = <<>> \/ ~AllDigits(digits) THEN None
        ELSE u32_of_magnitude(FromDecimal(digits))

\* u32::from_str_radix(hex, 16) of at most 4 characters
RECURSIVE HexNumber(_, _)
HexNumber(h, acc) ==
    IF h = <<>> THEN acc ELSE HexNumber(Tail(h), acc * 16 + HexValue(Head(h)))

from_str_radix_16(hex) ==
    LET digits == IF hex # <<>> /\ hex[1] = 43 THEN Tail(hex) ELSE hex
    IN  IF digits = <<>> \/ \E i \in 1..Len(digits) : ~IsHexDigit(digits[i])
        THEN None
        ELSE Some(HexNumber(digits, 0))

\* char::from_u32: every scalar value but the surrogates
char_from_u32(code) ==
    IF (55296 <= code /\ code <= 57343) \/ code > 1114111 THEN None ELSE Some(code)

\* unescape_string, from character i on
RECURSIVE unescape_from(_, _)
unescape_from(s, i) ==
    IF i > Len(s) THEN <<>>
    ELSE IF s[i] # BACKSLASH THEN <<s[i]>> \o unescape_from(s, i + 1)
    ELSE IF i + 1 > Len(s) THEN <<>>
    ELSE LET e == s[i + 1]
         IN  CASE e = QUOTE -> <<QUOTE>> \o unescape_from(s, i + 2)
               [] e = BACKSLASH -> <<BACKSLASH>> \o unescape_from(s, i + 2)
               [] e = 110 -> <<NEWLINE>> \o unescape_from(s, i + 2)
               [] e = 114 -> <<CR>> \o unescape_from(s, i + 2)
               [] e = 116 -> <<TAB>> \o unescape_from(s, i + 2)
               [] e = 117 ->
                     LET hex  == SubSeq(s, i + 2, MinOf(i + 5, Len(s)))
                         code == from_str_radix_16(hex)
                         ch   == IF code.some THEN char_from_u32(code.v) ELSE None
                     IN  (IF ch.some THEN <<ch.v>> ELSE <<>>)
                            \o unescape_from(s, i + 2 + Len(hex))
               [] OTHER -> <<e>> \o unescape_from(s, i + 2)

unescape_string(s) == unescape_from(s, 1)

\* the nearest f64 (ties to even) to num / den, both positive: the exponent
\* e2 of the quotient, the quotient scaled to 53 bits (or to the subnormal
\* scale), rounded on the remainder, and packed
ratio_packed(sign, e2, q) ==
    IF e2 > 1023 THEN F64(sign, 2047, <<>>)
    ELSE f64_from_bits(
             BigAdd(ShiftLeft(FromInt(sign), 63),
                    IF e2 >= 0 - 1022
                    THEN BigAdd(ShiftLeft(FromInt(e2 + 1022), 52), q)
                    ELSE q))

ratio_round_up(dd, q, r2) ==
    BigLess(dd, r2) \/ (r2 = dd /\ BigModSmall(q, 2) = 1)

ratio_rounded(sign, e2, dd, dm) ==
    ratio_packed(sign, e2,
                 IF ratio_round_up(dd, dm.q, BigAdd(dm.r, dm.r))
                 THEN BigAdd(dm.q, FromInt(1)) ELSE dm.q)

ratio_divided(sign, e2, nn, dd) == ratio_rounded(sign, e2, dd, BigDivMod(nn, dd))

ratio_scaled(sign, num, den, e2, sh) ==
    ratio_divided(sign, e2,
                  IF sh >= 0 THEN ShiftLeft(num, sh) ELSE num,
                  IF sh >= 0 THEN den ELSE ShiftLeft(den, 0 - sh))

ratio_of_exponent(sign, num, den, e2) ==
    ratio_scaled(sign, num, den, e2, IF e2 >= 0 - 1022 THEN 52 - e2 ELSE 1074)

ratio_of_estimate(sign, num, den, t) ==
    ratio_of_exponent(sign, num, den,
                      IF (IF t >= 0 THEN BigLeq(ShiftLeft(den, t), num)
                          ELSE BigLeq(den, ShiftLeft(num, 0 - t)))
                      THEN t ELSE t - 1)

RoundRatio(sign, num, den) ==
    ratio_of_estimate(sign, num, den, BitLen(num) - BitLen(den))

\* the number of digits that s holds from position i on, without a break
DigitRun(s, i) ==
    Cardinality({j \in i..Len(s) : \A m \in i..j : IsDigit(s[m])})

\* the f64 of mant * 10^k, k the written exponent less the nf digits after
\* the point
f64_of_scaled(sign, digits, mant, huge, eneg, k) ==
    IF mant = <<>> THEN Some(F64(sign, 0, <<>>))
    ELSE IF (huge /\ ~eneg) \/ k > 310 THEN Some(F64(sign, 2047, <<>>))
    ELSE IF (huge /\ eneg) \/ k + digits < 0 - 330 THEN Some(F64(sign, 0, <<>>))
    ELSE IF k >= 0 THEN Some(RoundRatio(sign, BigMul(mant, Pow10(k)), FromInt(1)))
    ELSE Some(RoundRatio(sign, mant, Pow10(0 - k)))

f64_of_exponent(sign, digits, nf, eneg, mant, emag, huge) ==
    f64_of_scaled(sign, digits, mant, huge, eneg,
                  IF huge THEN 0
                  ELSE (IF eneg THEN 0 - ToInt(emag) ELSE ToInt(emag)) - nf)

f64_of_decimal(sign, digits, nf, eneg, mant, emag) ==
    f64_of_exponent(sign, digits, nf, eneg, mant, emag,
                    BigLess(FromInt(100000), emag))

\* str::parse::<f64> of a token that holds '.', 'e' or 'E' (so never "inf",
\* "infinity" or "nan"): [+-]? (digit+ | digit+ . digit* | digit* . digit+)
\* ([eE] [+-]? digit+)?
parse_f64(s) ==
    LET i0   == IF s # <<>> /\ s[1] \in {43, 45} THEN 2 ELSE 1
        sign == IF s # <<>> /\ s[1] = 45 THEN 1 ELSE 0
        ni   == DigitRun(s, i0)
        i1   == i0 + ni
        dot  == i1 <= Len(s) /\ s[i1] = 46
        i2   == IF dot THEN i1 + 1 ELSE i1
        nf   == IF dot THEN DigitRun(s, i2) ELSE 0
        i3   == i2 + nf
        hasE == i3 <= Len(s) /\ s[i3] \in {101, 69}
        i4   == IF hasE /\ i3 + 1 <= Len(s) /\ s[i3 + 1] \in {43, 45}
                THEN i3 + 2 ELSE i3 + 1
        eneg == hasE /\ i3 + 1 <= Len(s) /\ s[i3 + 1] = 45
        ne   == IF hasE THEN DigitRun(s, i4) ELSE 0
        i5   == IF hasE THEN i4 + ne ELSE i3
    IN  IF ni + nf = 0 \/ (hasE /\ ne = 0) \/ i5 # Len(s) + 1 THEN None
        ELSE f64_of_decimal(sign, ni + nf, nf, eneg,
                 FromDecimal(SubSeq(s, i0, i1 - 1) \o SubSeq(s, i2, i3 - 1)),
                 FromDecimal(SubSeq(s, i4, i4 + ne - 1)))

Ok(v)        == [kind |-> "Ok", value |-> v]
Err(e)       == [kind |-> "Err", error |-> e]
Panic(where) == [kind |-> "Panic", at |-> where]

\* impl Deserialize for CanonicalValue, on the token s.  &s[1..s.len() - 1]
\* panics when the range is inverted (s.len() = 1).
deserialize_parsed(s, as_i64, as_f32, as_f64) ==
    IF s = Str_null THEN Ok(Null)
    ELSE IF s = Str_true THEN Ok(Bool(TRUE))
    ELSE IF s = Str_false THEN Ok(Bool(FALSE))
    ELSE IF as_i64.some THEN Ok(IntValue("Int", as_i64.v))
    ELSE IF as_f32.some
    THEN Ok(Float32(f32_into_f64(f32_from_bits(as_f32.v))))
    ELSE IF as_f64.some THEN Ok(Float(as_f64.v))
    ELSE IF s # <<>> /\ s[1] = QUOTE /\ s[Len(s)] = QUOTE
    THEN (IF Len(s) - 1 < 1 THEN Panic("slice index starts at 1 but ends at 0")
          ELSE Ok(String(unescape_string(SubSeq(s, 2, Len(s) - 1)))))
    ELSE Ok(String(s))

deserialize(s) ==
    deserialize_parsed(s, parse_i64(s),
        IF StartsWith(s, Str_f32) THEN parse_u32(SubSeq(s, 5, Len(s))) ELSE None,
        IF Contains(s, 46) \/ Contains(s, 101) \/ Contains(s, 69)
        THEN parse_f64(s) ELSE None)

---------------------------------------------------------------------------
(* The values the encoder and the decoder are run on.                      *)

MaxStrLen   == 2
MaxArrayLen == 2

RECURSIVE SeqsUpTo(_, _)
SeqsUpTo(S, n) ==
    IF n = 0 THEN {<<>>}
    ELSE LET shorter == SeqsUpTo(S, n - 1)
         IN  shorter \cup {Append(q, x) : q \in {r \in shorter : Len(r) = n - 1},
                                           x \in S}

\* '"', '\\', '\n', U+0001, 'a', U+00E9, U+1F600
Alphabet == {QUOTE, BACKSLASH, NEWLINE, 1, 97, 233, 128512}

\* "5", "null", "f32:0", "1e5", "[5]", ","
SpecialStrings ==
    {<<53>>, Str_null, Str_f32 \o <<48>>, <<49, 101, 53>>, <<91, 53, 93>>, <<44>>}

StringValues == {String(s) : s \in SeqsUpTo(Alphabet, MaxStrLen) \cup SpecialStrings}

\* 0, 5, i64::MAX, i64::MIN, -1
IntPatterns == {<<>>, FromInt(5), I64_MAX, Pow2(63), U64_MAX}

IntValues == {IntValue(t, i) : t \in IntTags, i \in IntPatterns}

\* 0.0, the subnormal with bit pattern 5, 1.5, NaN, -0.0, +infinity
FloatValues ==
    {F64(0, 0, <<>>), F64(0, 0, FromInt(5)), F64(0, 1023, Pow2(51)),
     F64(0, 2047, Pow2(51)), F64(1, 0, <<>>), F64(0, 2047, <<>>)}

\* f32 values 0.0, 1.5, NaN, the least subnormal, -2.0
Float32Values ==
    {f32_into_f64(x) : x \in {F32(0, 0, 0), F32(0, 127, 2^22), F32(0, 255, 2^22),
                              F32(0, 0, 1), F32(1, 128, 0)}}

ArrayElements ==
    {IntValue("Int", FromInt(5)), IntValue("Uint8", FromInt(5)),
     String(<<97>>), String(<<44>>), String(<<QUOTE>>),
     Float(F64(0, 2047, Pow2(51))), Array(<<>>)}

ArrayValues == {Array(items) : items \in SeqsUpTo(ArrayElements, MaxArrayLen)}

ValueUniverse ==
    {Null, Bool(TRUE), Bool(FALSE)} \cup IntValues
        \cup {Float(f) : f \in FloatValues} \cup {Float32(f) : f \in Float32Values}
        \cup StringValues \cup ArrayValues

\* the second value of a pair: one or two of every variant
ProbeValues ==
    {Null, Bool(TRUE), Bool(FALSE)}
        \cup {IntValue(t, FromInt(5)) : t \in IntTags}
        \cup {IntValue("Int", U64_MAX), Float(F64(0, 0, FromInt(5))),
              Float(F64(0, 2047, Pow2(51))), Float32(F64(0, 0, <<>>)),
              Float32(F64(0, 2047, Pow2(51))),
              String(<<53>>), String(<<97>>), String(Str_null), String(<<>>),
              Array(<<>>), Array(<<IntValue("Int", FromInt(5))>>),
              Array(<<String(<<97>>)>>)}

Idle == "idle"

ValueIdle ==
    /\ vpc = Idle /\ val = Null /\ val2 = Null
    /\ token = <<>> /\ token2 = <<>> /\ decoded = None /\ compared = None

ArtIdle ==
    /\ pc = Idle /\ a = None /\ b = None /\ todo_a = {} /\ todo_b = {}
    /\ order_a = <<>> /\ order_b = <<>> /\ edits = 0
    /\ hash_a = None /\ hash_b = None
    /\ result = None
    /\ fail_on_diff = FALSE /\ format_arg = <<>> /\ exit_status = None
    /\ steps = <<>>

GgufIdle ==
    /\ gpc = Idle /\ input = <<>> /\ pos = 0 /\ version = <<>>
    /\ tensor_count = <<>> /\ metadata_kv_count = <<>>
    /\ metadata = <<>> /\ tensors = <<>> /\ kv_read = 0 /\ tensors_read = 0
    /\ allocs = <<>> /\ overflow_checks = FALSE /\ outcome = None

StIdle ==
    /\ spc = Idle /\ st_input = <<>> /\ st_pos = 0 /\ st_allocs = <<>>
    /\ header_size = <<>> /\ obj = <<>> /\ entries_read = 0
    /\ st_metadata = <<>> /\ st_tensors = <<>> /\ st_outcome = None

---------------------------------------------------------------------------
(* SpecValue: a value is encoded to its token (impl Serialize) and the     *)
(* token is decoded again (impl Deserialize); serde_json carries the token *)
(* as a JSON string, which it reads back unchanged.                        *)

InitValue ==
    /\ vpc = "value"
    /\ val \in ValueUniverse
    /\ val2 \in ProbeValues
    /\ token = <<>> /\ token2 = <<>> /\ decoded = None /\ compared = None
    /\ ArtIdle /\ GgufIdle /\ StIdle

Serialize ==
    /\ vpc = "value"
    /\ token' = serialize_value(val)
    /\ token2' = serialize_value(val2)
    /\ vpc' = "encoded"
    /\ UNCHANGED <<val, val2, decoded, compared, artVars, ggufVars, stVars>>

Deserialize ==
    /\ vpc = "encoded"
    /\ decoded' = deserialize(token)
    /\ vpc' = "decoded"
    /\ UNCHANGED <<val, val2, token, token2, compared, artVars, ggufVars, stVars>>

\* val == val2, val2 == val, val == val and val2 == val2 (PartialEq::eq, as
\* assert_eq! and the diff apply it)
Compare ==
    /\ vpc = "value"
    /\ compared = None
    /\ compared' = Some([xy |-> CanonicalValue_eq(val, val2),
                         yx |-> CanonicalValue_eq(val2, val),
                         xx |-> CanonicalValue_eq(val, val),
                         yy |-> CanonicalValue_eq(val2, val2)])
    /\ UNCHANGED <<vpc, val, val2, token, token2, decoded, artVars, ggufVars, stVars>>

NextValue == Serialize \/ Deserialize \/ Compare

SpecValue == InitValue /\ [][NextValue]_vars

---------------------------------------------------------------------------
(* SpecDecode: the decoder is given a token that no encoder need have      *)
(* written (a CanonicalValue read from JSON somebody else produced).       *)

MaxTokenLen == 3

\* '"', '\\', '-', '.', '5', 'a', 'e'
TokenAlphabet == {QUOTE, BACKSLASH, 45, 46, 53, 97, 101}

\* "null", "true", "false", "f32:", "f32:abc", "f32:5", "f32:+5", "f32:-1",
\* "f32:4294967295", "f32:4294967296", "f32:1.5", "9223372036854775807",
\* "9223372036854775808", "-9223372036854775808", "1E5", "1.5e-5", "+5",
\* "nan", "inf", "\"\\u0041\"", "\"a\\", "[5]", " 5"
SpecialTokens ==
    {Str_null, Str_true, Str_false, Str_f32, Str_f32 \o <<97, 98, 99>>,
     Str_f32 \o <<53>>, Str_f32 \o <<43, 53>>, Str_f32 \o <<45, 49>>,
     Str_f32 \o Decimal(U32_MAX), Str_f32 \o Decimal(Pow2(32)),
     Str_f32 \o <<49, 46, 53>>,
     Decimal(I64_MAX), Decimal(Pow2(63)), <<45>> \o Decimal(Pow2(63)),
     <<49, 69, 53>>, <<49, 46, 53, 101, 45, 53>>, <<43, 53>>,
     <<110, 97, 110>>, <<105, 110, 102>>,
     <<QUOTE, BACKSLASH, 117, 48, 48, 52, 49, QUOTE>>,
     <<QUOTE, 97, BACKSLASH>>, <<91, 53, 93>>, <<32, 53>>}

Tokens == SeqsUpTo(TokenAlphabet, MaxTokenLen) \cup SpecialTokens

InitDecode ==
    /\ vpc = "token"
    /\ token \in Tokens
    /\ val = Null /\ val2 = Null /\ token2 = <<>>
    /\ decoded = None /\ compared = None
    /\ ArtIdle /\ GgufIdle /\ StIdle

\* CanonicalValue::deserialize on the token
DecodeToken ==
    /\ vpc = "token"
    /\ decoded' = deserialize(token)
    /\ vpc' = "token_decoded"
    /\ UNCHANGED <<val, val2, token, token2, compared, artVars, ggufVars, stVars>>

NextDecode == DecodeToken

SpecDecode == InitDecode /\ [][NextDecode]_vars

\* C2: the canonical encoding is injective: two values that are not equal
\* (PartialEq) never get the same token from serialize_value.
C2_EncodingInjective ==
    (vpc = "encoded" /\ ~CanonicalValue_eq(val, val2)) => token # token2

\* C3: decoding the token of a value gives the value back, for every variant:
\* deserialize(serialize(v)) = v.
C3_RoundTripExact ==
    vpc = "decoded" =>
        (decoded.kind = "Ok" /\ CanonicalValue_eq(decoded.value, val))

\* the variant of a value and what it holds: the bit pattern of an integer
\* or a float, the characters of a string, the same of the elements of an
\* array
RECURSIVE Identity(_)
Identity(x) ==
    CASE x.tag = "Null" -> <<"Null">>
      [] x.tag = "Bool" -> <<"Bool", x.b>>
      [] x.tag \in IntTags -> <<x.tag, x.i>>
      [] x.tag \in {"Float", "Float32"} -> <<x.tag, x.f.sign, x.f.exp, x.f.mant>>
      [] x.tag = "String" -> <<"String", x.s>>
      [] x.tag = "Array" ->
            <<"Array", [i \in 1..Len(x.items) |-> Identity(x.items[i])]>>

\* C19: equality of CanonicalValue is an equivalence relation (reflexive,
\* symmetric, transitive) over all values, NaN floats and arrays holding them
\* included: floats are compared by bit pattern, arrays element by element,
\* and two values of different variants are never equal, even with the same
\* payload.
C19_EqualityIsEquivalence ==
    compared.some =>
        /\ compared.v.xx /\ compared.v.yy
        /\ compared.v.xy <=> compared.v.yx
        /\ \A z \in ProbeValues :
              /\ (compared.v.xy /\ CanonicalValue_eq(val2, z))
                    => CanonicalValue_eq(val, z)
              /\ (CanonicalValue_eq(z, val) /\ compared.v.xy)
                    => CanonicalValue_eq(z, val2)
        /\ val.tag # val2.tag => ~compared.v.xy
        /\ compared.v.xy <=> Identity(val) = Identity(val2)

\* NaN compared with NaN is equal
C19_Witness ==
    /\ compared.some
    /\ val = Float(NaN) /\ val2 = Float(NaN)
    /\ compared.v.xy /\ compared.v.xx

\* an array holding NaN is equal to itself
C19_WitnessArray ==
    /\ compared.some
    /\ val = Array(<<Float(NaN)>>)
    /\ compared.v.xx

\* the same payload in two variants: not equal
C19_WitnessVariants ==
    /\ compared.some
    /\ val = IntValue("Uint8", FromInt(5)) /\ val2 = IntValue("Int8", FromInt(5))
    /\ ~compared.v.xy /\ ~compared.v.yx

\* NaN as a Float and as a Float32: not equal
C19_WitnessFloatVariants ==
    /\ compared.some
    /\ val = Float32(NaN) /\ val2 = Float(NaN)
    /\ ~compared.v.xy

\* a String all of whose characters are in the Basic Multilingual Plane
\* survives escape_string then unescape_string, and the encoder then the
\* decoder
BmpStringRoundTrip ==
    (val.tag = "String" /\ \A i \in 1..Len(val.s) : val.s[i] < 65536) =>
        /\ unescape_string(escape_string(val.s)) = val.s
        /\ vpc = "decoded" => decoded = Ok(val)

\* a token no shape of the decoder matches: not a literal, no digit in it
\* or after its "f32:" (so no number and no f32 bit pattern), not between
\* double quotes
Unrecognised(t) ==
    /\ t \notin {Str_null, Str_true, Str_false}
    /\ \A i \in 1..Len(t) :
          IsDigit(t[i]) => (i <= 4 /\ SubSeq(t, 1, MinOf(4, Len(t))) = Str_f32)
    /\ ~(t # <<>> /\ t[1] = QUOTE /\ t[Len(t)] = QUOTE)

\* every token but the single double quote is decoded to a value
DecodeTotalButQuote ==
    (vpc = "token_decoded" /\ token # <<QUOTE>>) =>
        /\ decoded.kind = "Ok"
        /\ Unrecognised(token) => decoded.value = String(token)

\* C22: decoding a CanonicalValue from a token is total: for every token
\* (the empty string, a single double quote, "f32:" followed by text that is
\* no number) the decoder returns a value and never fails or panics; a
\* token of none of the recognised shapes comes back as a String holding the
\* token unchanged.
C22_DecodeTotal ==
    vpc = "token_decoded" =>
        /\ decoded.kind = "Ok"
        /\ Unrecognised(token) => decoded.value = String(token)

\* C21: escaping round-trips: for every string s (printable ASCII, control
\* characters, double quotes, backslashes, non-ASCII characters of any code
\* point) unescape_string(escape_string(s)) = s, so String(s) comes back
\* unchanged from serialize then deserialize.
C21_EscapeRoundTrip ==
    val.tag = "String" =>
        /\ vpc # "value" =>
              /\ token = <<QUOTE>> \o escape_string(val.s) \o <<QUOTE>>
              /\ unescape_string(SubSeq(token, 2, Len(token) - 1)) = val.s
        /\ vpc = "decoded" => decoded = Ok(val)

---------------------------------------------------------------------------
(* BTreeMap<String, V>: the entries in strictly ascending key order, which *)
(* is the order in which the map is iterated and serialized.               *)

Entry(k, v) == [key |-> k, value |-> v]

BTreeMap_new == <<>>

\* the place of key k: the entries before it have smaller keys
LowerBound(m, k) == Cardinality({i \in 1..Len(m) : StrLess(m[i].key, k)}) + 1

BTreeMap_contains(m, k) == \E i \in 1..Len(m) : m[i].key = k

BTreeMap_get(m, k) == m[CHOOSE i \in 1..Len(m) : m[i].key = k].value

\* a map that keeps its entries in insertion order: a new key goes to the end
BTreeMap_insert_at_end(m, k, v) ==
    IF BTreeMap_contains(m, k)
    THEN [i \in 1..Len(m) |-> IF m[i].key = k THEN Entry(k, v) ELSE m[i]]
    ELSE Append(m, Entry(k, v))

\* an insert that leaves the value of a key that is present as it was
BTreeMap_insert_keeping_first(m, k, v) ==
    LET i == LowerBound(m, k)
    IN  IF i <= Len(m) /\ m[i].key = k
        THEN m
        ELSE SubSeq(m, 1, i - 1) \o <<Entry(k, v)>> \o SubSeq(m, i, Len(m))

\* BTreeMap::insert: replaces the value of a key that is present
BTreeMap_insert(m, k, v) ==
    LET i == LowerBound(m, k)
    IN  IF i <= Len(m) /\ m[i].key = k
        THEN [m EXCEPT ![i] = Entry(k, v)]
        ELSE SubSeq(m, 1, i - 1) \o <<Entry(k, v)>> \o SubSeq(m, i, Len(m))

\* BTreeMap::remove
BTreeMap_remove(m, k) ==
    LET i == LowerBound(m, k)
    IN  IF i <= Len(m) /\ m[i].key = k
        THEN SubSeq(m, 1, i - 1) \o SubSeq(m, i + 1, Len(m))
        ELSE m

\* the keys from the greatest to the least
BTreeMap_keys_descending(m) == [i \in 1..Len(m) |-> m[Len(m) + 1 - i].key]

\* BTreeMap::keys, in iteration order
BTreeMap_keys(m) == [i \in 1..Len(m) |-> m[i].key]

KeySet(m) == {m[i].key : i \in 1..Len(m)}

---------------------------------------------------------------------------
(* Artifact and Tensor (types.rs), and their serde_json serialization.     *)

Tensor(name, dtype, shape, byte_length) ==
    [name |-> name, dtype |-> dtype, shape |-> shape, byte_length |-> byte_length]

Artifact(format, gguf_version, meta, tens) ==
    [format |-> format, gguf_version |-> gguf_version,
     metadata |-> meta, tensors |-> tens]

Str_format       == <<102, 111, 114, 109, 97, 116>>
Str_gguf_version == <<103, 103, 117, 102, 95, 118, 101, 114, 115, 105, 111, 110>>
Str_metadata     == <<109, 101, 116, 97, 100, 97, 116, 97>>
Str_tensors      == <<116, 101, 110, 115, 111, 114, 115>>
Str_name         == <<110, 97, 109, 101>>
Str_dtype        == <<100, 116, 121, 112, 101>>
Str_shape        == <<115, 104, 97, 112, 101>>
Str_byte_length  == <<98, 121, 116, 101, 95, 108, 101, 110, 103, 116, 104>>
Str_gguf         == <<103, 103, 117, 102>>
Str_safetensors  == <<115, 97, 102, 101, 116, 101, 110, 115, 111, 114, 115>>
Str_onnx         == <<111, 110, 110, 120>>

\* #[serde(rename_all = "lowercase")] enum Format
Format_name(format) ==
    CASE format = "GGUF" -> Str_gguf
      [] format = "Safetensors" -> Str_safetensors
      [] format = "Onnx" -> Str_onnx

\* serde_json's string escaping: '"', '\\', \b \f \n \r \t, and \u00xx for
\* the other characters below U+0020; everything else is written as it is
json_escape_char(c) ==
    CASE c = QUOTE -> <<BACKSLASH, QUOTE>>
      [] c = BACKSLASH -> <<BACKSLASH, BACKSLASH>>
      [] c = 8 -> <<BACKSLASH, 98>>
      [] c = 12 -> <<BACKSLASH, 102>>
      [] c = NEWLINE -> <<BACKSLASH, 110>>
      [] c = CR -> <<BACKSLASH, 114>>
      [] c = TAB -> <<BACKSLASH, 116>>
      [] c < 32 /\ c \notin {8, 12, NEWLINE, CR, TAB} -> <<BACKSLASH, 117>> \o Hex04(c)
      [] OTHER -> <<c>>

json_string(s) ==
    <<QUOTE>> \o Flatten([i \in 1..Len(s) |-> json_escape_char(s[i])]) \o <<QUOTE>>

\* {"k":v,...} of a sequence of <<key, serialized value>>
json_object(fields) ==
    <<123>> \o Join([i \in 1..Len(fields) |->
                        json_string(fields[i][1]) \o <<58>> \o fields[i][2]], <<44>>)
            \o <<125>>

json_array(items) == <<91>> \o Join(items, <<44>>) \o <<93>>

\* a Tensor written without its byte_length
Tensor_to_json_without_byte_length(t) ==
    json_object(<< <<Str_name, json_string(t.name)>>,
                   <<Str_dtype, json_string(t.dtype)>>,
                   <<Str_shape, json_array([i \in 1..Len(t.shape) |->
                                               Decimal(t.shape[i])])>> >>)

\* #[derive(Serialize)] struct Tensor
Tensor_to_json(t) ==
    json_object(<< <<Str_name, json_string(t.name)>>,
                   <<Str_dtype, json_string(t.dtype)>>,
                   <<Str_shape, json_array([i \in 1..Len(t.shape) |->
                                               Decimal(t.shape[i])])>>,
                   <<Str_byte_length, Decimal(t.byte_length)>> >>)

\* #[derive(Serialize)] struct Artifact; gguf_version is skipped when None; a
\* CanonicalValue is written as the JSON string of its token (impl Serialize)
Artifact_to_json(art) ==
    json_object(
        << <<Str_format, json_string(Format_name(art.format))>> >>
        \o (IF art.gguf_version.some
            THEN << <<Str_gguf_version, i64_to_string(art.gguf_version.v)>> >>
            ELSE <<>>)
        \o << <<Str_metadata,
                json_object([i \in 1..Len(art.metadata) |->
                    <<art.metadata[i].key,
                      json_string(serialize_value(art.metadata[i].value))>>])>>,
              <<Str_tensors,
                json_object([i \in 1..Len(art.tensors) |->
                    <<art.tensors[i].key,
                      Tensor_to_json(art.tensors[i].value)>>])>> >>)

\* hex::encode(Sha256::digest(bytes)): SHA-256 is taken to be collision-free, so
\* a digest stands for exactly the bytes that were hashed
Sha256Hex(bytes) == [sha256_of |-> bytes]

\* compute_structural_hash (serde_json::to_string cannot fail on an Artifact:
\* every map key is a string)
compute_structural_hash(art) == Sha256Hex(Artifact_to_json(art))

---------------------------------------------------------------------------
(* diff (diff.rs).  Key sets are BTreeSets, so difference and intersection *)
(* are walked in ascending key order.                                      *)

\* a difference that removes nothing
BTreeSet_difference_keeps_all(xs, ys) == xs

\* BTreeSet::difference: the keys of xs that are not in ys
BTreeSet_difference(xs, ys) ==
    SelectSeq(xs, LAMBDA k : \A j \in 1..Len(ys) : ys[j] # k)

\* BTreeSet::intersection
BTreeSet_intersection(xs, ys) ==
    SelectSeq(xs, LAMBDA k : \E j \in 1..Len(ys) : ys[j] = k)

\* a DiffResult that starts with the hashes taken as equal
DiffResult_new_hash_equal ==
    [schema |-> 1, format_equal |-> FALSE, hash_equal |-> TRUE,
     tensor_count_equal |-> FALSE, metadata_count_equal |-> FALSE,
     metadata_added |-> <<>>, metadata_removed |-> <<>>, metadata_changed |-> <<>>,
     tensors_added |-> <<>>, tensors_removed |-> <<>>, tensor_changes |-> <<>>]

\* DiffResult::new(): schema 1, everything else Default
DiffResult_new ==
    [schema |-> 1, format_equal |-> FALSE, hash_equal |-> FALSE,
     tensor_count_equal |-> FALSE, metadata_count_equal |-> FALSE,
     metadata_added |-> <<>>, metadata_removed |-> <<>>, metadata_changed |-> <<>>,
     tensors_added |-> <<>>, tensors_removed |-> <<>>, tensor_changes |-> <<>>]

\* a MetadataChange that reports the old value on both sides
MetadataChange_old_on_both_sides(key, old_val, new_val) ==
    [key |-> key, old_value |-> old_val, new_value |-> old_val]

\* the MetadataChange built for a key of both artifacts
MetadataChange(key, old_val, new_val) ==
    [key |-> key, old_value |-> old_val, new_value |-> new_val]

\* a TensorChange that reports the shape whether it differs or not
TensorChange_with_shape(name, old_tensor, new_tensor) ==
    [name |-> name,
     dtype_old |-> IF old_tensor.dtype # new_tensor.dtype
                   THEN Some(old_tensor.dtype) ELSE None,
     dtype_new |-> IF old_tensor.dtype # new_tensor.dtype
                   THEN Some(new_tensor.dtype) ELSE None,
     shape_old |-> Some(old_tensor.shape),
     shape_new |-> Some(new_tensor.shape),
     byte_length_old |-> IF old_tensor.byte_length # new_tensor.byte_length
                         THEN Some(old_tensor.byte_length) ELSE None,
     byte_length_new |-> IF old_tensor.byte_length # new_tensor.byte_length
                         THEN Some(new_tensor.byte_length) ELSE None]

\* the TensorChange built for a tensor name of both artifacts
TensorChange(name, old_tensor, new_tensor) ==
    [name |-> name,
     dtype_old |-> IF old_tensor.dtype # new_tensor.dtype
                   THEN Some(old_tensor.dtype) ELSE None,
     dtype_new |-> IF old_tensor.dtype # new_tensor.dtype
                   THEN Some(new_tensor.dtype) ELSE None,
     shape_old |-> IF old_tensor.shape # new_tensor.shape
                   THEN Some(old_tensor.shape) ELSE None,
     shape_new |-> IF old_tensor.shape # new_tensor.shape
                   THEN Some(new_tensor.shape) ELSE None,
     byte_length_old |-> IF old_tensor.byte_length # new_tensor.byte_length
                         THEN Some(old_tensor.byte_length) ELSE None,
     byte_length_new |-> IF old_tensor.byte_length # new_tensor.byte_length
                         THEN Some(new_tensor.byte_length) ELSE None]

\* the test that decides whether the change is pushed
TensorChange_is_some(change) ==
    change.dtype_old.some \/ change.shape_old.some \/ change.byte_length_old.some

diff(x, y) ==
    LET keys_a == BTreeMap_keys(x.metadata)
        keys_b == BTreeMap_keys(y.metadata)
        changed_keys ==
            SelectSeq(BTreeSet_intersection(keys_a, keys_b),
                      LAMBDA k : ~CanonicalValue_eq(BTreeMap_get(x.metadata, k),
                                                    BTreeMap_get(y.metadata, k)))
        tensor_names_a == BTreeMap_keys(x.tensors)
        tensor_names_b == BTreeMap_keys(y.tensors)
        common == BTreeSet_intersection(tensor_names_a, tensor_names_b)
        changes == [i \in 1..Len(common) |->
                       TensorChange(common[i], BTreeMap_get(x.tensors, common[i]),
                                    BTreeMap_get(y.tensors, common[i]))]
    IN  [DiffResult_new EXCEPT
            !.format_equal = (x.format = y.format),
            !.tensor_count_equal = (Len(x.tensors) = Len(y.tensors)),
            !.metadata_count_equal = (Len(x.metadata) = Len(y.metadata)),
            !.metadata_added = BTreeSet_difference(keys_b, keys_a),
            !.metadata_removed = BTreeSet_difference(keys_a, keys_b),
            !.metadata_changed =
                [i \in 1..Len(changed_keys) |->
                    MetadataChange(changed_keys[i],
                                   BTreeMap_get(x.metadata, changed_keys[i]),
                                   BTreeMap_get(y.metadata, changed_keys[i]))],
            !.tensors_added = BTreeSet_difference(tensor_names_b, tensor_names_a),
            !.tensors_removed = BTreeSet_difference(tensor_names_a, tensor_names_b),
            !.tensor_changes = SelectSeq(changes, TensorChange_is_some)]

\* has_changes() that also reports a change when the hashes differ
has_changes_or_hash_differs(r) ==
    \/ r.metadata_added # <<>>
    \/ r.metadata_removed # <<>>
    \/ r.metadata_changed # <<>>
    \/ r.tensors_added # <<>>
    \/ r.tensors_removed # <<>>
    \/ r.tensor_changes # <<>>
    \/ ~r.hash_equal

\* DiffResult::has_changes
has_changes(r) ==
    \/ r.metadata_added # <<>>
    \/ r.metadata_removed # <<>>
    \/ r.metadata_changed # <<>>
    \/ r.tensors_added # <<>>
    \/ r.tensors_removed # <<>>
    \/ r.tensor_changes # <<>>

Str_text    == <<116, 101, 120, 116>>                    \* "text"
Str_md      == <<109, 100>>                              \* "md"

\* the diff command that stops on differences whether or not the flag is set
diff_status_ignoring_flag(flag, format, r) ==
    IF has_changes(r) THEN 1
    ELSE IF format # Str_text /\ format # Str_md THEN 1
    ELSE 0

\* Commands::Diff after the diff: std::process::exit(1) when --fail-on-diff
\* is set and the result has changes; Err(AppError::InvalidFormat), which the
\* runtime reports with status 1, for a format other than "text"
\* and "md"; otherwise the result is printed (println! only, and a
\* serde_json rendering of the result that has no failing case) and main
\* returns Ok(()).
diff_status(flag, format, r) ==
    IF flag /\ has_changes(r) THEN 1
    ELSE IF format # Str_text /\ format # Str_md THEN 1
    ELSE 0

---------------------------------------------------------------------------
(* The artifacts the two artifact specifications work with.                *)

MaxEdits == 2

Dtype_f32 == <<102, 51, 50>>                 \* "f32"
Dtype_f16 == <<102, 49, 54>>                 \* "f16"

Formats  == {"GGUF", "Safetensors", "Onnx"}
Versions == {None, Some(FromInt(3)), Some(FromInt(2))}

MetaKeys   == {<<97>>, <<98>>}               \* "a", "b"
MetaValues == {Float(NaN), IntValue("Uint8", FromInt(5)),
               IntValue("Int", FromInt(5)), Array(<<Float(NaN)>>)}

TensorNames == {<<116>>, <<117>>}            \* "t", "u"

Shape_4_4 == <<FromInt(4), FromInt(4)>>
Shape_8_4 == <<FromInt(8), FromInt(4)>>

\* a base tensor and the tensors that differ from it in dtype, in shape, in
\* byte_length, and in all three
TensorValues(name) ==
    {Tensor(name, Dtype_f32, Shape_4_4, FromInt(64)),
     Tensor(name, Dtype_f16, Shape_4_4, FromInt(64)),
     Tensor(name, Dtype_f32, Shape_8_4, FromInt(64)),
     Tensor(name, Dtype_f32, Shape_4_4, FromInt(128)),
     Tensor(name, Dtype_f16, Shape_8_4, FromInt(128))}

StartMetadata ==
    {BTreeMap_new,
     BTreeMap_insert(BTreeMap_insert(BTreeMap_new, <<98>>,
                                     IntValue("Uint8", FromInt(5))),
                     <<97>>, Array(<<Float(NaN)>>))}

StartTensors ==
    LET base(name) == Tensor(name, Dtype_f32, Shape_4_4, FromInt(64))
        one == BTreeMap_insert(BTreeMap_new, <<116>>, base(<<116>>))
    IN  {BTreeMap_new, BTreeMap_insert(one, <<117>>, base(<<117>>))}

StartArtifacts ==
    {Artifact(fv[1], fv[2], m, t) :
        fv \in {<<"GGUF", Some(FromInt(3))>>, <<"Safetensors", None>>},
        m \in StartMetadata, t \in StartTensors}

---------------------------------------------------------------------------
(* Spec: artifact b starts as a clone of artifact a and is edited through  *)
(* the map and field operations (as the tests of diff.rs and hash.rs build *)
(* their pairs); then both are hashed and diffed, in the order of the diff *)
(* command (main.rs).                                                      *)

Init ==
    /\ pc = "edit"
    /\ a \in StartArtifacts
    /\ b = a
    /\ edits = 0
    /\ todo_a = {} /\ todo_b = {} /\ order_a = <<>> /\ order_b = <<>>
    /\ hash_a = None /\ hash_b = None /\ result = None
    /\ fail_on_diff = FALSE /\ format_arg = <<>> /\ exit_status = None
    /\ steps = <<>>
    /\ ValueIdle /\ GgufIdle /\ StIdle

Edited(new_b) ==
    /\ pc = "edit"
    /\ edits < MaxEdits
    /\ b' = new_b
    /\ edits' = edits + 1
    /\ UNCHANGED <<pc, a, todo_a, todo_b, order_a, order_b, hash_a, hash_b, result,
                   cliVars, valueVars, ggufVars, stVars>>

\* b.metadata.insert(k, v)
InsertMetadata ==
    \E k \in MetaKeys, v \in MetaValues :
        Edited([b EXCEPT !.metadata = BTreeMap_insert(b.metadata, k, v)])

\* b.metadata.remove(k)
RemoveMetadata ==
    \E k \in MetaKeys :
        Edited([b EXCEPT !.metadata = BTreeMap_remove(b.metadata, k)])

\* b.tensors.insert(name, Tensor { name, .. })
InsertTensor ==
    \E name \in TensorNames : \E t \in TensorValues(name) :
        Edited([b EXCEPT !.tensors = BTreeMap_insert(b.tensors, name, t)])

\* b.tensors.remove(name)
RemoveTensor ==
    \E name \in TensorNames :
        Edited([b EXCEPT !.tensors = BTreeMap_remove(b.tensors, name)])

\* b.format = f
SetFormat == \E f \in Formats : Edited([b EXCEPT !.format = f])

\* b.gguf_version = v
SetVersion == \E v \in Versions : Edited([b EXCEPT !.gguf_version = v])

\* a = b.clone(): the edited artifact becomes the one to compare against
Clone ==
    /\ pc = "edit"
    /\ a # b
    /\ a' = b
    /\ UNCHANGED <<pc, b, todo_a, todo_b, order_a, order_b, edits, hash_a, hash_b,
                   result, cliVars, valueVars, ggufVars, stVars>>

\* let hash_a = compute_structural_hash(&a); let hash_b = ...(&b)
Hash ==
    /\ pc \in {"edit", "build"}
    /\ todo_a = {} /\ todo_b = {}
    /\ hash_a' = Some(compute_structural_hash(a))
    /\ hash_b' = Some(compute_structural_hash(b))
    /\ pc' = "hashed"
    /\ UNCHANGED <<a, b, todo_a, todo_b, order_a, order_b, edits, result,
                   cliVars, valueVars, ggufVars, stVars>>

\* let mut result = diff::diff(&a, &b)
Diff ==
    /\ pc = "hashed"
    /\ result' = Some(diff(a, b))
    /\ pc' = "compared"
    /\ UNCHANGED <<a, b, todo_a, todo_b, order_a, order_b, edits, hash_a, hash_b,
                   cliVars, valueVars, ggufVars, stVars>>

\* result.hash_equal = hash_a == hash_b
AssignHashEqual ==
    /\ pc = "compared"
    /\ result' = Some([result.v EXCEPT !.hash_equal = (hash_a = hash_b)])
    /\ pc' = "diffed"
    /\ UNCHANGED <<a, b, todo_a, todo_b, order_a, order_b, edits, hash_a, hash_b,
                   cliVars, valueVars, ggufVars, stVars>>

\* the values of --format the command is run with
FormatArgs ==
    {Str_text, Str_md,
     <<84, 69, 88, 84>>,                             \* "TEXT"
     <<105, 110, 118, 97, 108, 105, 100>>}           \* "invalid"

\* the rest of Commands::Diff, run with --fail-on-diff set or not and with a
\* value of --format: the process ends with a status
Exit ==
    /\ pc = "diffed"
    /\ \E flag \in BOOLEAN, format \in FormatArgs :
          /\ fail_on_diff' = flag
          /\ format_arg' = format
          /\ exit_status' = Some(diff_status(flag, format, result.v))
    /\ pc' = "exited"
    /\ UNCHANGED <<a, b, todo_a, todo_b, order_a, order_b, edits, hash_a, hash_b,
                   result, steps, valueVars, ggufVars, stVars>>

Next ==
    \/ InsertMetadata \/ RemoveMetadata \/ InsertTensor \/ RemoveTensor
    \/ SetFormat \/ SetVersion \/ Clone \/ Hash \/ Diff \/ AssignHashEqual \/ Exit

Spec == Init /\ [][Next]_vars

---------------------------------------------------------------------------
(* SpecBuild: the entries of an artifact are inserted into two empty       *)
(* artifacts, each in an order of its own (the permutation tests of        *)
(* hash.rs and the determinism tests of diff.rs); then both are hashed and *)
(* diffed.                                                                 *)

MapEntry(map, k, v) == [map |-> map, key |-> k, value |-> v]

BuildEntries ==
    {MapEntry("metadata", k, v) :
        k \in MetaKeys, v \in {Float(NaN), IntValue("Uint8", FromInt(5))}}
    \cup
    {MapEntry("tensors", n, Tensor(n, Dtype_f32, Shape_4_4, FromInt(64))) :
        n \in TensorNames}

\* the entries of one artifact: no key twice in a map
EntrySets ==
    {S \in SUBSET BuildEntries :
        \A e \in S, f \in S : (e.map = f.map /\ e.key = f.key) => e = f}

\* artifact.metadata.insert(..) or artifact.tensors.insert(..)
Inserted(art, e) ==
    IF e.map = "metadata"
    THEN [art EXCEPT !.metadata = BTreeMap_insert(art.metadata, e.key, e.value)]
    ELSE [art EXCEPT !.tensors = BTreeMap_insert(art.tensors, e.key, e.value)]

InitBuild ==
    /\ pc = "build"
    /\ a = Artifact("GGUF", Some(FromInt(3)), BTreeMap_new, BTreeMap_new)
    /\ b = a
    /\ todo_a \in EntrySets
    /\ todo_b = todo_a
    /\ order_a = <<>> /\ order_b = <<>> /\ edits = 0
    /\ hash_a = None /\ hash_b = None /\ result = None
    /\ fail_on_diff = FALSE /\ format_arg = <<>> /\ exit_status = None
    /\ steps = <<>>
    /\ ValueIdle /\ GgufIdle /\ StIdle

InsertA ==
    /\ pc = "build"
    /\ \E e \in todo_a :
        /\ a' = Inserted(a, e)
        /\ todo_a' = todo_a \ {e}
        /\ order_a' = Append(order_a, e)
    /\ UNCHANGED <<pc, b, todo_b, order_b, edits, hash_a, hash_b, result,
                   cliVars, valueVars, ggufVars, stVars>>

InsertB ==
    /\ pc = "build"
    /\ todo_a = {}
    /\ \E e \in todo_b :
        /\ b' = Inserted(b, e)
        /\ todo_b' = todo_b \ {e}
        /\ order_b' = Append(order_b, e)
    /\ UNCHANGED <<pc, a, todo_a, order_a, edits, hash_a, hash_b, result,
                   cliVars, valueVars, ggufVars, stVars>>

NextBuild == InsertA \/ InsertB \/ Hash \/ Diff \/ AssignHashEqual

SpecBuild == InitBuild /\ [][NextBuild]_vars

---------------------------------------------------------------------------
(* SpecCommand: the diff subcommand of main, one action per statement of   *)
(* Commands::Diff, run on two paths with --fail-on-diff set or not and a   *)
(* value of --format.  pc names the statement that is run next.            *)

\* what detect_format returns for a path: an artifact or an AppError
ParseOutcomes ==
    {Ok(x) : x \in StartArtifacts} \cup {Err("FileOpen"), Err("GGUFParse")}

InitCommand ==
    /\ pc = "parse_a"
    /\ a = None /\ b = None
    /\ edits = 0
    /\ todo_a = {} /\ todo_b = {} /\ order_a = <<>> /\ order_b = <<>>
    /\ hash_a = None /\ hash_b = None /\ result = None
    /\ fail_on_diff \in BOOLEAN /\ format_arg \in FormatArgs
    /\ exit_status = None
    /\ steps = <<>>
    /\ ValueIdle /\ GgufIdle /\ StIdle

\* the statement named by pc has run; the next one is `next`
Ran(next) ==
    /\ steps' = Append(steps, pc)
    /\ pc' = next
    /\ UNCHANGED <<todo_a, todo_b, order_a, order_b, edits, fail_on_diff,
                   format_arg, valueVars, ggufVars, stVars>>

\* main returns Err(..) or calls std::process::exit(1)
Failed == Ran("exited") /\ exit_status' = Some(1)

\* let artifact_a = detect_format(Path::new(&file_a))?
DetectFormatA ==
    /\ pc = "parse_a"
    /\ \E r \in ParseOutcomes :
          IF r.kind = "Ok"
          THEN Ran("parse_b") /\ a' = r.value /\ UNCHANGED exit_status
          ELSE Failed /\ UNCHANGED a
    /\ UNCHANGED <<b, hash_a, hash_b, result>>

\* let artifact_b = detect_format(Path::new(&file_b))?
DetectFormatB ==
    /\ pc = "parse_b"
    /\ \E r \in ParseOutcomes :
          IF r.kind = "Ok"
          THEN Ran("hash_a") /\ b' = r.value /\ UNCHANGED exit_status
          ELSE Failed /\ UNCHANGED b
    /\ UNCHANGED <<a, hash_a, hash_b, result>>

\* let hash_a = compute_structural_hash(&artifact_a)?
HashA ==
    /\ pc = "hash_a"
    /\ Ran("hash_b")
    /\ hash_a' = Some(compute_structural_hash(a))
    /\ UNCHANGED <<a, b, hash_b, result, exit_status>>

\* let hash_b = compute_structural_hash(&artifact_b)?
HashB ==
    /\ pc = "hash_b"
    /\ Ran("diff")
    /\ hash_b' = Some(compute_structural_hash(b))
    /\ UNCHANGED <<a, b, hash_a, result, exit_status>>

\* let mut result = diff::diff(&artifact_a, &artifact_b);
\* result.hash_equal = hash_a == hash_b
DiffArtifacts ==
    /\ pc = "diff"
    /\ Ran("fail_on_diff")
    /\ result' = Some([diff(a, b) EXCEPT !.hash_equal = (hash_a = hash_b)])
    /\ UNCHANGED <<a, b, hash_a, hash_b, exit_status>>

\* a check of --fail-on-diff that never ends the process
FailOnDiffCheck_never_exits ==
    /\ pc = "fail_on_diff"
    /\ Ran("format")
    /\ UNCHANGED <<a, b, hash_a, hash_b, result, exit_status>>

\* if fail_on_diff && result.has_changes() { std::process::exit(1); }
FailOnDiffCheck ==
    /\ pc = "fail_on_diff"
    /\ IF fail_on_diff /\ has_changes(result.v)
       THEN Failed
       ELSE Ran("format") /\ UNCHANGED exit_status
    /\ UNCHANGED <<a, b, hash_a, hash_b, result>>

\* if format != "text" && format != "md" { return Err(InvalidFormat) }
FormatCheck ==
    /\ pc = "format"
    /\ IF format_arg # Str_text /\ format_arg # Str_md
       THEN Failed
       ELSE Ran("print") /\ UNCHANGED exit_status
    /\ UNCHANGED <<a, b, hash_a, hash_b, result>>

\* print_diff_extended(&result, ..)?; main returns Ok(())
PrintDiff ==
    /\ pc = "print"
    /\ Ran("exited")
    /\ exit_status' = Some(0)
    /\ UNCHANGED <<a, b, hash_a, hash_b, result>>

NextCommand ==
    \/ DetectFormatA \/ DetectFormatB \/ HashA \/ HashB \/ DiffArtifacts
    \/ FailOnDiffCheck \/ FormatCheck \/ PrintDiff

SpecCommand == InitCommand /\ [][NextCommand]_vars

\* the statements of Commands::Diff in the order of the claim
CommandOrder ==
    <<"parse_a", "parse_b", "hash_a", "hash_b", "diff", "fail_on_diff",
      "format", "print">>

Ended == pc = "exited"

\* the status the command ends with is the one diff_status gives
EndsWithDiffStatus ==
    (Ended /\ result.some) =>
        exit_status = Some(diff_status(fail_on_diff, format_arg, result.v))

\* C29: the diff subcommand runs parse A, parse B, hash A, hash B, diff,
\* the --fail-on-diff check, the --format validation and the print in this
\* order; when file A fails to parse the command ends before file B is
\* opened, and when --fail-on-diff is set and has_changes() is true the
\* process exits with status 1 before --format is validated and before a
\* report is printed.
C29_CommandOrder ==
    /\ steps = SubSeq(CommandOrder, 1, Len(steps))
    /\ ~Ended => pc = CommandOrder[Len(steps) + 1]
    /\ (Ended /\ a = None) =>
          steps = <<"parse_a">> /\ b = None /\ exit_status = Some(1)
    /\ (Ended /\ result.some /\ fail_on_diff /\ has_changes(result.v)) =>
          /\ exit_status = Some(1)
          /\ steps = SubSeq(CommandOrder, 1, 6)
    /\ (Ended /\ exit_status = Some(0)) => steps = CommandOrder

\* --fail-on-diff on artifacts that differ, with a --format that would be
\* refused: the process has ended at the check of the flag
C29_Witness ==
    /\ Ended /\ result.some /\ fail_on_diff /\ has_changes(result.v)
    /\ format_arg # Str_text /\ format_arg # Str_md
    /\ steps[Len(steps)] = "fail_on_diff"

\* file A is refused
C29_WitnessParseA == Ended /\ a = None /\ steps = <<"parse_a">>

\* all eight steps have run
C29_WitnessPrinted == Ended /\ steps = CommandOrder /\ exit_status = Some(0)

\* C1: inserting the entries of an artifact in any two orders gives the same
\* map contents, the same canonical serialization and the same digest.
C1_InsertionOrderIndependent ==
    pc \in {"hashed", "diffed"} =>
        /\ a = b
        /\ Artifact_to_json(a) = Artifact_to_json(b)
        /\ hash_a = hash_b
        /\ Len(a.metadata) + Len(a.tensors) = Len(order_a)

\* two different orders of three or more entries, hashed
C1_Witness ==
    /\ pc = "hashed"
    /\ Len(order_a) >= 3
    /\ order_a # order_b
    /\ order_a[1].map = "metadata" /\ order_b[1].map = "tensors"
    /\ hash_a = hash_b

---------------------------------------------------------------------------
(* Properties of hashing and diffing two artifacts (Spec).                 *)

Range(q) == {q[i] : i \in 1..Len(q)}

NoRepeats(q) == Cardinality(Range(q)) = Len(q)

CommonKeys(m1, m2) == KeySet(m1) \cap KeySet(m2)

TensorFieldsDiffer(s, t) ==
    s.dtype # t.dtype \/ s.shape # t.shape \/ s.byte_length # t.byte_length

\* x and y differ in format, version, metadata key set, tensor name set, or in
\* the dtype, shape or byte_length of a tensor they both have
StructureDiffers(x, y) ==
    \/ x.format # y.format
    \/ x.gguf_version # y.gguf_version
    \/ KeySet(x.metadata) # KeySet(y.metadata)
    \/ KeySet(x.tensors) # KeySet(y.tensors)
    \/ \E n \in CommonKeys(x.tensors, y.tensors) :
          TensorFieldsDiffer(BTreeMap_get(x.tensors, n), BTreeMap_get(y.tensors, n))

\* C4: two artifacts that differ in format, in version (None versus Some
\* included), in their metadata key set, in their tensor name set, or in one
\* tensor's dtype, shape or byte_length have different structural hashes.
C4_HashSensitive ==
    (pc \in {"hashed", "diffed"} /\ StructureDiffers(a, b)) => hash_a # hash_b

\* b is a with only the byte_length of one tensor changed
C4_Witness ==
    /\ pc = "hashed"
    /\ hash_a # hash_b
    /\ a.format = b.format /\ a.gguf_version = b.gguf_version
    /\ a.metadata = b.metadata
    /\ KeySet(a.tensors) = KeySet(b.tensors)
    /\ \E n \in KeySet(a.tensors) :
          LET s == BTreeMap_get(a.tensors, n)
              t == BTreeMap_get(b.tensors, n)
          IN  /\ s.dtype = t.dtype /\ s.shape = t.shape
              /\ s.byte_length # t.byte_length
              /\ \A o \in KeySet(a.tensors) \ {n} :
                    BTreeMap_get(a.tensors, o) = BTreeMap_get(b.tensors, o)

\* C5: diff(A, A) reports equal format and counts, has all six collections
\* empty and has_changes() false, whatever A holds (NaN floats and arrays too).
C5_SelfDiffEmpty ==
    (pc = "diffed" /\ a = b) =>
        LET r == result.v
        IN  /\ r.format_equal /\ r.tensor_count_equal /\ r.metadata_count_equal
            /\ r.metadata_added = <<>> /\ r.metadata_removed = <<>>
            /\ r.metadata_changed = <<>>
            /\ r.tensors_added = <<>> /\ r.tensors_removed = <<>>
            /\ r.tensor_changes = <<>>
            /\ ~has_changes(r)

\* an artifact with a NaN float, an array holding NaN and tensors, diffed with
\* itself
C5_Witness ==
    /\ pc = "diffed" /\ a = b
    /\ \E i \in 1..Len(a.metadata) : a.metadata[i].value = Float(NaN)
    /\ \E i \in 1..Len(a.metadata) : a.metadata[i].value = Array(<<Float(NaN)>>)
    /\ a.tensors # <<>>
    /\ ~has_changes(result.v)

\* C6: the metadata keys of a and b fall into added (in b only), removed (in
\* a only), changed (in both, values unequal) and unchanged; metadata_added,
\* metadata_removed and the keys of metadata_changed are exactly the first
\* three classes, without repeats, and pairwise disjoint.  The same for tensor
\* names with tensors_added, tensors_removed and tensor_changes.
C6_DiffPartition ==
    pc = "diffed" =>
        LET r == result.v
            m_added == Range(r.metadata_added)
            m_removed == Range(r.metadata_removed)
            m_changed == {r.metadata_changed[i].key : i \in 1..Len(r.metadata_changed)}
            t_added == Range(r.tensors_added)
            t_removed == Range(r.tensors_removed)
            t_changed == {r.tensor_changes[i].name : i \in 1..Len(r.tensor_changes)}
        IN  /\ m_added = KeySet(b.metadata) \ KeySet(a.metadata)
            /\ m_removed = KeySet(a.metadata) \ KeySet(b.metadata)
            /\ m_changed = {k \in CommonKeys(a.metadata, b.metadata) :
                              ~CanonicalValue_eq(BTreeMap_get(a.metadata, k),
                                                 BTreeMap_get(b.metadata, k))}
            /\ m_added \cap m_removed = {} /\ m_added \cap m_changed = {}
            /\ m_removed \cap m_changed = {}
            /\ NoRepeats(r.metadata_added) /\ NoRepeats(r.metadata_removed)
            /\ Len(r.metadata_changed) = Cardinality(m_changed)
            /\ t_added = KeySet(b.tensors) \ KeySet(a.tensors)
            /\ t_removed = KeySet(a.tensors) \ KeySet(b.tensors)
            /\ t_changed = {n \in CommonKeys(a.tensors, b.tensors) :
                              BTreeMap_get(a.tensors, n) # BTreeMap_get(b.tensors, n)}
            /\ t_added \cap t_removed = {} /\ t_added \cap t_changed = {}
            /\ t_removed \cap t_changed = {}
            /\ NoRepeats(r.tensors_added) /\ NoRepeats(r.tensors_removed)
            /\ Len(r.tensor_changes) = Cardinality(t_changed)

\* one metadata key removed and one changed from Uint8(5) to Int(5)
C6_Witness ==
    /\ pc = "diffed"
    /\ Len(result.v.metadata_removed) = 1 /\ Len(result.v.metadata_changed) = 1
    /\ result.v.metadata_added = <<>>
    /\ \E k \in CommonKeys(a.metadata, b.metadata) :
          /\ BTreeMap_get(a.metadata, k) = IntValue("Uint8", FromInt(5))
          /\ BTreeMap_get(b.metadata, k) = IntValue("Int", FromInt(5))

\* C7: for a tensor name of both artifacts there is a TensorChange iff dtype,
\* shape or byte_length differs; in it the _old and _new members of a field
\* are Some of a's and b's values when the field differs, and None when not.
C7_TensorChangeFields ==
    pc = "diffed" =>
        \A n \in CommonKeys(a.tensors, b.tensors) :
            LET s == BTreeMap_get(a.tensors, n)
                t == BTreeMap_get(b.tensors, n)
                changes == result.v.tensor_changes
                at == {i \in 1..Len(changes) : changes[i].name = n}
                Field(differs, old, new, va, vb) ==
                    IF differs THEN old = Some(va) /\ new = Some(vb)
                    ELSE old = None /\ new = None
            IN  /\ Cardinality(at) = IF TensorFieldsDiffer(s, t) THEN 1 ELSE 0
                /\ \A i \in at :
                    /\ Field(s.dtype # t.dtype, changes[i].dtype_old,
                             changes[i].dtype_new, s.dtype, t.dtype)
                    /\ Field(s.shape # t.shape, changes[i].shape_old,
                             changes[i].shape_new, s.shape, t.shape)
                    /\ Field(s.byte_length # t.byte_length,
                             changes[i].byte_length_old,
                             changes[i].byte_length_new,
                             s.byte_length, t.byte_length)

\* one tensor changed in dtype only, next to a tensor that did not change
C7_Witness ==
    /\ pc = "diffed"
    /\ Cardinality(CommonKeys(a.tensors, b.tensors)) = 2
    /\ Len(result.v.tensor_changes) = 1
    /\ result.v.tensor_changes[1].dtype_old = Some(Dtype_f32)
    /\ result.v.tensor_changes[1].dtype_new = Some(Dtype_f16)
    /\ result.v.tensor_changes[1].shape_old = None
    /\ result.v.tensor_changes[1].byte_length_new = None

\* the number of entries of the six change collections of a result
ChangeCount(r) ==
    Len(r.metadata_added) + Len(r.metadata_removed) + Len(r.metadata_changed)
    + Len(r.tensors_added) + Len(r.tensors_removed) + Len(r.tensor_changes)

\* C17: has_changes() is true iff at least one of metadata_added,
\* metadata_removed, metadata_changed, tensors_added, tensors_removed and
\* tensor_changes is non-empty, and its value stays the same whatever
\* format_equal, hash_equal, tensor_count_equal and metadata_count_equal are.
C17_HasChanges ==
    result.some =>
        /\ has_changes(result.v) <=> ChangeCount(result.v) > 0
        /\ \A f, h, t, m \in BOOLEAN :
              has_changes([result.v EXCEPT !.format_equal = f,
                                           !.hash_equal = h,
                                           !.tensor_count_equal = t,
                                           !.metadata_count_equal = m])
              <=> has_changes(result.v)

\* artifacts that differ in format only: the hashes and the formats differ,
\* the six collections are empty
C17_Witness ==
    /\ result.some
    /\ ~result.v.format_equal /\ ~result.v.hash_equal
    /\ result.v.tensor_count_equal /\ result.v.metadata_count_equal
    /\ ChangeCount(result.v) = 0
    /\ ~has_changes(result.v)

\* a result with changes
C17_WitnessChanged ==
    /\ result.some
    /\ ChangeCount(result.v) > 0
    /\ has_changes(result.v)

\* C18: when both files parse, the diff command run with --format text or md
\* exits zero without --fail-on-diff, whether or not the artifacts differ,
\* and with --fail-on-diff exits non-zero exactly when has_changes() is true;
\* run with any other value of --format it exits non-zero.
C18_ExitStatus ==
    pc = "exited" =>
        /\ exit_status.some
        /\ IF format_arg \in {Str_text, Str_md}
           THEN /\ ~fail_on_diff => exit_status.v = 0
                /\ fail_on_diff => (exit_status.v # 0 <=> ChangeCount(result.v) > 0)
           ELSE exit_status.v # 0

\* artifacts that differ, compared without --fail-on-diff: status zero
C18_Witness ==
    /\ pc = "exited"
    /\ ~fail_on_diff /\ format_arg = Str_text
    /\ a # b /\ ChangeCount(result.v) > 0
    /\ exit_status = Some(0)

\* the same with --fail-on-diff: status one
C18_WitnessFlag ==
    /\ pc = "exited"
    /\ fail_on_diff /\ format_arg = Str_md
    /\ ChangeCount(result.v) > 0
    /\ exit_status = Some(1)

\* equal artifacts and a format that is neither text nor md
C18_WitnessFormat ==
    /\ pc = "exited"
    /\ format_arg \notin {Str_text, Str_md}
    /\ ChangeCount(result.v) = 0
    /\ exit_status.some /\ exit_status.v # 0

StrictlyAscending(keys) ==
    \A i \in 1..(Len(keys) - 1) : StrLess(keys[i], keys[i + 1])

\* the metadata changes of s are those of r with old and new exchanged
MetadataChangesSwapped(r, s) ==
    /\ Len(s) = Len(r)
    /\ \A i \in 1..Len(r) :
          /\ s[i].key = r[i].key
          /\ s[i].old_value = r[i].new_value
          /\ s[i].new_value = r[i].old_value

\* the tensor changes of s are those of r with old and new exchanged
TensorChangesSwapped(r, s) ==
    /\ Len(s) = Len(r)
    /\ \A i \in 1..Len(r) :
          /\ s[i].name = r[i].name
          /\ s[i].dtype_old = r[i].dtype_new
          /\ s[i].dtype_new = r[i].dtype_old
          /\ s[i].shape_old = r[i].shape_new
          /\ s[i].shape_new = r[i].shape_old
          /\ s[i].byte_length_old = r[i].byte_length_new
          /\ s[i].byte_length_new = r[i].byte_length_old

\* s is r read in the other direction
Swapped(r, s) ==
    /\ s.metadata_added = r.metadata_removed
    /\ s.metadata_removed = r.metadata_added
    /\ s.tensors_added = r.tensors_removed
    /\ s.tensors_removed = r.tensors_added
    /\ MetadataChangesSwapped(r.metadata_changed, s.metadata_changed)
    /\ TensorChangesSwapped(r.tensor_changes, s.tensor_changes)
    /\ s.format_equal = r.format_equal
    /\ s.tensor_count_equal = r.tensor_count_equal
    /\ s.metadata_count_equal = r.metadata_count_equal
    /\ has_changes(s) = has_changes(r)

\* C30: diff is antisymmetric in its arguments: diff(b, a) has the added
\* and the removed lists of diff(a, b) exchanged, for metadata and for
\* tensors, the same changed metadata keys and changed tensor names with
\* every old/new pair swapped, and the same format_equal,
\* tensor_count_equal, metadata_count_equal and has_changes().
C30_DiffAntisymmetric ==
    (pc \in {"compared", "diffed"}) => Swapped(result.v, diff(b, a))

\* a key removed and a value changed
C30_Witness ==
    /\ pc = "compared"
    /\ result.v.metadata_removed # <<>>
    /\ result.v.metadata_changed # <<>>
    /\ diff(b, a).metadata_added = result.v.metadata_removed
    /\ diff(b, a).metadata_changed # result.v.metadata_changed

\* a tensor removed and a tensor changed
C30_WitnessTensors ==
    /\ pc = "compared"
    /\ result.v.tensors_removed # <<>>
    /\ result.v.tensor_changes # <<>>

\* a change of the format only
C30_WitnessFormat ==
    /\ pc = "compared"
    /\ ~result.v.format_equal
    /\ ~has_changes(result.v)

\* C24: in every DiffResult of diff, metadata_added, metadata_removed,
\* tensors_added and tensors_removed are in strictly ascending lexicographic
\* order, metadata_changed and tensor_changes in strictly ascending order of
\* their key / name; no key is twice in a list, and the order is the same
\* however the maps were built.
C24_DiffListsSorted ==
    result.some =>
        LET r == result.v
        IN  /\ StrictlyAscending(r.metadata_added)
            /\ StrictlyAscending(r.metadata_removed)
            /\ StrictlyAscending([i \in 1..Len(r.metadata_changed) |->
                                     r.metadata_changed[i].key])
            /\ StrictlyAscending(r.tensors_added)
            /\ StrictlyAscending(r.tensors_removed)
            /\ StrictlyAscending([i \in 1..Len(r.tensor_changes) |->
                                     r.tensor_changes[i].name])

\* two metadata keys added (in either order of insertion) and listed "a", "b"
C24_Witness ==
    /\ result.some
    /\ a.metadata = <<>> /\ edits = 2
    /\ result.v.metadata_added = <<<<97>>, <<98>>>>

\* two tensors changed and listed "t", "u"
C24_WitnessChanges ==
    /\ result.some
    /\ Len(result.v.tensor_changes) = 2
    /\ result.v.tensor_changes[1].name = <<116>>
    /\ result.v.tensor_changes[2].name = <<117>>

\* two metadata keys removed
C24_WitnessRemoved ==
    /\ result.some
    /\ result.v.metadata_removed = <<<<97>>, <<98>>>>

\* every tensor is stored under its own name
NamesAreKeys(x) ==
    \A i \in 1..Len(x.tensors) : x.tensors[i].value.name = x.tensors[i].key

\* artifacts of the same format and the same gguf_version that diff finds
\* without changes have the same structural hash
AgreementWithinVersion ==
    (/\ pc \in {"diffed", "exited"}
     /\ NamesAreKeys(a) /\ NamesAreKeys(b)
     /\ a.gguf_version = b.gguf_version
     /\ result.v.format_equal /\ ~has_changes(result.v))
        => (hash_a = hash_b /\ result.v.hash_equal)

\* C25: diff and hash agree: for artifacts a and b whose tensors are all
\* stored under their own name, if diff(a, b) has format_equal = true and
\* has_changes() = false then the structural hashes of a and b are equal:
\* when the diff command reports IDENTICAL for two files of the same format
\* it reports the structural ID as unchanged.
C25_DiffAgreesWithHash ==
    (/\ pc \in {"diffed", "exited"}
     /\ NamesAreKeys(a) /\ NamesAreKeys(b)
     /\ result.v.format_equal /\ ~has_changes(result.v))
        => (hash_a = hash_b /\ result.v.hash_equal)

\* C23: diff never computes hash_equal: for all artifacts a and b, a = b
\* included, the DiffResult diff(a, b) returns has hash_equal = false and
\* schema = 1; hash_equal is true only after the caller has assigned it the
\* comparison of the two structural hashes, as the diff command does.
C23_HashEqualFromCaller ==
    /\ pc = "compared" => (~result.v.hash_equal /\ result.v.schema = 1)
    /\ pc \in {"diffed", "exited"} =>
            /\ result.v.hash_equal <=> (hash_a.v = hash_b.v)
            /\ result.v.schema = 1
    /\ (result.some /\ result.v.hash_equal) => pc \in {"diffed", "exited"}

\* diff(a, a): equal hashes, hash_equal still false
C23_Witness ==
    /\ pc = "compared"
    /\ a = b /\ a.tensors # <<>> /\ hash_a = hash_b
    /\ ~result.v.hash_equal /\ result.v.schema = 1

\* the caller has assigned the comparison
C23_WitnessAssigned ==
    /\ pc = "diffed"
    /\ a = b /\ result.v.hash_equal

---------------------------------------------------------------------------
(* The GGUF parser (gguf/mod.rs).  The reader is the byte sequence `input` *)
(* and the number `pos` of bytes delivered so far; a read gives the value  *)
(* read, the new position and the allocations made, or the error.          *)

GGUF_MAGIC         == <<71, 71, 85, 70>>     \* 0x46554747, little-endian
MAX_ARRAY_ELEMENTS == 100000
MAX_TENSOR_COUNT   == 100000
MAX_METADATA_COUNT == 10000
MAX_DIMENSIONS     == 32
MAX_STRING_LENGTH  == 1000000
MAX_VERSION        == 4


IoError       == [error |-> "IoError"]       \* read_exact: UnexpectedEof
InvalidHeader == [error |-> "InvalidHeader"]
InvalidMagic  == [error |-> "InvalidMagic"]
UnsupportedVersion(v) == [error |-> "UnsupportedVersion", version |-> v]
ArrayTooLarge(count, max) ==
    [error |-> "ArrayTooLarge", count |-> count, max |-> max]
TensorCountTooLarge(count, max) ==
    [error |-> "TensorCountTooLarge", count |-> count, max |-> max]
MetadataCountTooLarge(count, max) ==
    [error |-> "MetadataCountTooLarge", count |-> count, max |-> max]
DimensionsTooLarge(dims, max) ==
    [error |-> "DimensionsTooLarge", dims |-> dims, max |-> max]

Done(v, p, al) == [ok |-> TRUE, value |-> v, pos |-> p, allocs |-> al]
Fail(e, p, al) == [ok |-> FALSE, err |-> e, pos |-> p, allocs |-> al]

\* an allocation of `size` elements
Alloc(what, size) == [what |-> what, size |-> size]

\* read_exact into an n-byte buffer, then from_le_bytes: the digits of the
\* number are the bytes themselves
read_le(inp, p, al, n) ==
    IF p + n <= Len(inp) THEN Done(Norm(SubSeq(inp, p + 1, p + n)), p + n, al)
    ELSE Fail(IoError, p, al)

read_u8(inp, p, al)  == read_le(inp, p, al, 1)
read_i8(inp, p, al)  == read_le(inp, p, al, 1)
read_u16(inp, p, al) == read_le(inp, p, al, 2)
read_i16(inp, p, al) == read_le(inp, p, al, 2)
read_u32(inp, p, al) == read_le(inp, p, al, 4)
read_i32(inp, p, al) == read_le(inp, p, al, 4)
read_u64(inp, p, al) == read_le(inp, p, al, 8)
read_i64(inp, p, al) == read_le(inp, p, al, 8)
read_f32(inp, p, al) == read_le(inp, p, al, 4)
read_f64(inp, p, al) == read_le(inp, p, al, 8)

\* `x as i64` of a signed integer of the given width: sign extension
signed_as_i64(x, bits) ==
    IF BigLess(x, Pow2(bits - 1)) THEN x
    ELSE BigAdd(x, BigSub(Pow2(64), Pow2(bits)))

\* the value of a number that a match compares with small literals; every
\* number of more than one byte takes the default arm
MatchCode(x) == IF Len(x) <= 1 THEN ToInt(x) ELSE Radix

IsContinuation(c) == 128 <= c /\ c <= 191

\* String::from_utf8: the code points, or None for bytes that are not UTF-8
RECURSIVE from_utf8(_, _, _)
from_utf8(bytes, i, acc) ==
    IF i > Len(bytes) THEN Some(acc)
    ELSE LET c == bytes[i]
             c1 == IF i + 1 <= Len(bytes) THEN bytes[i + 1] ELSE 0
             c2 == IF i + 2 <= Len(bytes) THEN bytes[i + 2] ELSE 0
             c3 == IF i + 3 <= Len(bytes) THEN bytes[i + 3] ELSE 0
         IN  IF c < 128 THEN from_utf8(bytes, i + 1, Append(acc, c))
             ELSE IF 194 <= c /\ c <= 223 /\ IsContinuation(c1)
             THEN from_utf8(bytes, i + 2,
                            Append(acc, (c - 192) * 64 + (c1 - 128)))
             ELSE IF /\ 224 <= c /\ c <= 239
                     /\ IsContinuation(c1) /\ IsContinuation(c2)
                     /\ (c = 224 => c1 >= 160) /\ (c = 237 => c1 <= 159)
             THEN from_utf8(bytes, i + 3,
                            Append(acc, (c - 224) * 4096 + (c1 - 128) * 64
                                        + (c2 - 128)))
             ELSE IF /\ 240 <= c /\ c <= 244
                     /\ IsContinuation(c1) /\ IsContinuation(c2)
                     /\ IsContinuation(c3)
                     /\ (c = 240 => c1 >= 144) /\ (c = 244 => c1 <= 143)
             THEN from_utf8(bytes, i + 4,
                            Append(acc, (c - 240) * 262144 + (c1 - 128) * 4096
                                        + (c2 - 128) * 64 + (c3 - 128)))
             ELSE None

\* from_utf8 of the filled buffer
string_from_utf8(str, q, buf) ==
    IF str.some THEN Done(str.v, q, buf) ELSE Fail(InvalidHeader, q, buf)

\* read_exact into the buffer of n bytes
string_in_buffer(inp, q, n, buf) ==
    IF q + n > Len(inp) THEN Fail(IoError, q, buf)
    ELSE string_from_utf8(from_utf8(SubSeq(inp, q + 1, q + n), 1, <<>>), q + n, buf)

\* the rest of read_string with the buffer allocated before the length check
string_allocating_first(inp, al, len) ==
    IF ~len.ok THEN len
    ELSE IF len.value = <<>> THEN Done(<<>>, len.pos, al)
    ELSE IF BigLess(FromInt(MAX_STRING_LENGTH), len.value)
    THEN Fail(InvalidHeader, len.pos, Append(al, Alloc("string", len.value)))
    ELSE string_in_buffer(inp, len.pos, ToInt(len.value),
                          Append(al, Alloc("string", len.value)))

\* read_string, with the length checked after the buffer is allocated
read_string_allocating_first(inp, p, al) ==
    string_allocating_first(inp, al, read_u64(inp, p, al))

\* the rest of read_string once the length is read: the empty string, the
\* ceiling, then vec![0u8; len]
string_of_length(inp, al, len) ==
    IF ~len.ok THEN len
    ELSE IF len.value = <<>> THEN Done(<<>>, len.pos, al)
    ELSE IF BigLess(FromInt(MAX_STRING_LENGTH), len.value)
    THEN Fail(InvalidHeader, len.pos, al)
    ELSE string_in_buffer(inp, len.pos, ToInt(len.value),
                          Append(al, Alloc("string", len.value)))

\* read_string: the length, then vec![0u8; len], read_exact, from_utf8
read_string(inp, p, al) == string_of_length(inp, al, read_u64(inp, p, al))

\* the CanonicalValue that an arm of the value match makes of what it read
value_of(type, x) ==
    CASE type = 0 -> IntValue("Uint8", x)
      [] type = 1 -> IntValue("Int8", signed_as_i64(x, 8))
      [] type = 2 -> IntValue("Uint16", x)
      [] type = 3 -> IntValue("Int16", signed_as_i64(x, 16))
      [] type = 4 -> IntValue("Uint32", x)
      [] type = 5 -> IntValue("Int32", signed_as_i64(x, 32))
      [] type = 6 -> Float32(f32_into_f64(f32_from_bits(x)))
      [] type = 7 -> Bool(x # <<>>)
      [] type = 8 -> String(x)
      [] type = 10 -> IntValue("Uint64", x)
      [] type = 11 -> IntValue("Int64", x)
      [] type = 12 -> Float(f64_from_bits(x))
      [] OTHER -> x

\* the value of a read, errors passed on (the `?` operator)
value_read(type, r) ==
    IF r.ok THEN Done(value_of(type, r.value), r.pos, r.allocs) ELSE r

\* the arms 0 to 8 of the value match, which the array element match repeats
read_scalar(inp, p, al, type) ==
    value_read(type,
               CASE type = 0 -> read_u8(inp, p, al)
                 [] type = 1 -> read_i8(inp, p, al)
                 [] type = 2 -> read_u16(inp, p, al)
                 [] type = 3 -> read_i16(inp, p, al)
                 [] type = 4 -> read_u32(inp, p, al)
                 [] type = 5 -> read_i32(inp, p, al)
                 [] type = 6 -> read_f32(inp, p, al)
                 [] type = 7 -> read_u8(inp, p, al)       \* read_bool
                 [] type = 8 -> read_string(inp, p, al))

\* the loop that fills the array: `remaining` elements are still to be read
RECURSIVE read_array_elements(_, _, _, _, _, _)

\* arr.push(val), and the next round
array_push(inp, element_type, remaining, arr, elem) ==
    IF ~elem.ok THEN elem
    ELSE read_array_elements(inp, elem.pos, elem.allocs, element_type,
                             remaining - 1, Append(arr, elem.value))

read_array_elements(inp, p, al, element_type, remaining, arr) ==
    IF remaining = 0 THEN Done(Array(arr), p, al)
    ELSE array_push(inp, element_type, remaining, arr,
                    IF MatchCode(element_type) <= 8
                    THEN read_scalar(inp, p, al, MatchCode(element_type))
                    ELSE Fail(InvalidHeader, p, al))

\* the count is read: the ceiling, Vec::with_capacity(n), the loop
array_of_count(inp, al, element_type, n) ==
    IF ~n.ok THEN n
    ELSE IF BigLess(FromInt(MAX_ARRAY_ELEMENTS), n.value)
    THEN Fail(ArrayTooLarge(n.value, MAX_ARRAY_ELEMENTS), n.pos, al)
    ELSE read_array_elements(inp, n.pos, Append(al, Alloc("array", n.value)),
                             element_type, ToInt(n.value), <<>>)

\* the element type is read: the count comes next
array_of_type(inp, al, element_type) ==
    IF ~element_type.ok THEN element_type
    ELSE array_of_count(inp, al, element_type.value,
                        read_u64(inp, element_type.pos, al))

\* the arm 9 of read_kv: element type, count, ceiling, Vec::with_capacity, loop
read_array(inp, p, al) == array_of_type(inp, al, read_u32(inp, p, al))

\* Ok((key, value))
kv_of(key, r) ==
    IF r.ok THEN Done([key |-> key, value |-> r.value], r.pos, r.allocs) ELSE r

\* the value match of read_kv
read_value(inp, q, al, type) ==
    CASE type <= 8 -> read_scalar(inp, q, al, type)
      [] type = 9 -> read_array(inp, q, al)
      [] type = 10 -> value_read(type, read_u64(inp, q, al))
      [] type = 11 -> value_read(type, read_i64(inp, q, al))
      [] type = 12 -> value_read(type, read_f64(inp, q, al))
      [] OTHER -> Fail(InvalidHeader, q, al)

\* the value type is read
kv_of_type(inp, key, value_type) ==
    IF ~value_type.ok THEN value_type
    ELSE kv_of(key, read_value(inp, value_type.pos, value_type.allocs,
                               MatchCode(value_type.value)))

\* the key is read
kv_of_key(inp, key) ==
    IF ~key.ok THEN key
    ELSE kv_of_type(inp, key.value, read_u32(inp, key.pos, key.allocs))

\* read_kv: the key, the value type and the value; [key, value] when read
read_kv(inp, p, al) == kv_of_key(inp, read_string(inp, p, al))

Str_unknown == <<117, 110, 107, 110, 111, 119, 110, 95>>     \* "unknown_"

gguf_dtype_str(dtype) ==
    LET code == MatchCode(dtype)
    IN  
        CASE code = 0 -> <<102, 51, 50>>                          \* "f32"
          [] code = 1 -> <<102, 49, 54>>                          \* "f16"
          [] code = 2 -> <<113, 52, 95, 48>>                      \* "q4_0"
          [] code = 3 -> <<113, 52, 95, 49>>                      \* "q4_1"
          [] code = 6 -> <<113, 53, 95, 48>>                      \* "q5_0"
          [] code = 7 -> <<113, 53, 95, 49>>                      \* "q5_1"
          [] code = 8 -> <<113, 56, 95, 48>>                      \* "q8_0"
          [] code = 9 -> <<113, 56, 95, 49>>                      \* "q8_1"
          [] code = 10 -> <<113, 50, 95, 107>>                    \* "q2_k"
          [] code = 11 -> <<113, 51, 95, 107>>                    \* "q3_k"
          [] code = 12 -> <<113, 52, 95, 107>>                    \* "q4_k"
          [] code = 13 -> <<113, 53, 95, 107>>                    \* "q5_k"
          [] code = 14 -> <<113, 54, 95, 107>>                    \* "q6_k"
          [] code = 15 -> <<113, 56, 95, 107>>                    \* "q8_k"
          [] code = 16 -> <<105, 113, 50, 95, 120, 120, 115>>     \* "iq2_xxs"
          [] code = 17 -> <<105, 113, 50, 95, 120, 115>>          \* "iq2_xs"
          [] code = 18 -> <<105, 113, 51, 95, 120, 120, 115>>     \* "iq3_xxs"
          [] code = 19 -> <<105, 113, 49, 95, 115>>               \* "iq1_s"
          [] code = 20 -> <<105, 113, 52, 95, 110, 108>>          \* "iq4_nl"
          [] code = 21 -> <<105, 113, 51, 95, 115>>               \* "iq3_s"
          [] code = 22 -> <<105, 113, 50, 95, 115>>               \* "iq2_s"
          [] code = 23 -> <<105, 113, 52, 95, 120, 115>>          \* "iq4_xs"
          [] code = 24 -> <<105, 56>>                             \* "i8"
          [] code = 25 -> <<105, 49, 54>>                         \* "i16"
          [] code = 26 -> <<105, 51, 50>>                         \* "i32"
          [] code = 27 -> <<105, 54, 52>>                         \* "i64"
          [] code = 28 -> <<102, 54, 52>>                         \* "f64"
          [] code = 29 -> <<105, 113, 49, 95, 109>>               \* "iq1_m"
          [] code = 30 -> <<98, 102, 49, 54>>                     \* "bf16"
          [] code = 34 -> <<116, 113, 49, 95, 48>>                \* "tq1_0"
          [] code = 35 -> <<116, 113, 50, 95, 48>>                \* "tq2_0"
          [] code = 39 -> <<109, 120, 102, 112, 52>>              \* "mxfp4"
          [] OTHER -> Str_unknown \o Decimal(dtype)

\* u64::checked_mul
checked_mul(x, y) ==
    LET product == BigMul(x, y)
    IN  IF BigLeq(product, U64_MAX) THEN Some(product) ELSE None

\* checked_mul(..).unwrap_or(0)
unwrap_or_0(product) == IF product.some THEN product.v ELSE <<>>

\* the loop of compute_byte_length over the dimensions lo..hi, `elements` being
\* the count before them (computed first): for each dimension
\* elements.checked_mul(dim).unwrap_or(0); the rounds of the second half of
\* the range follow those of the first
RECURSIVE element_count(_, _, _, _)
element_count(shape, lo, hi, elements) ==
    IF lo > hi \/ ~Evaluated(elements) THEN elements
    ELSE IF lo = hi THEN unwrap_or_0(checked_mul(elements, shape[lo]))
    ELSE element_count(shape, (lo + hi) \div 2 + 1, hi,
                       element_count(shape, lo, (lo + hi) \div 2, elements))

\* `x * w` on u64: an overflow panics in a build with overflow checks (the
\* debug profile) and wraps in a build without them (the release profile)
mul_u64(x, w, checks) ==
    LET product == BigMul(x, FromInt(w))
    IN  IF BigLeq(product, U64_MAX) THEN Ok(product)
        ELSE IF checks THEN Panic("attempt to multiply with overflow")
        ELSE Ok(Wrap(product, 8))

\* compute_byte_length, in a build with or without overflow checks
compute_byte_length(shape, dtype, checks) ==
    LET elements == element_count(shape, 1, Len(shape), FromInt(1))
        code == MatchCode(dtype)
    IN  CASE code \in {0, 26} -> mul_u64(elements, 4, checks)
          [] code \in {1, 25, 30} -> mul_u64(elements, 2, checks)
          [] code = 24 -> Ok(elements)
          [] code \in {27, 28} -> mul_u64(elements, 8, checks)
          [] OTHER -> Ok(<<>>)

\* shape.push(read_u64(reader)?)
shape_push(st, dim) ==
    IF ~dim.ok THEN dim
    ELSE Done(Append(st.value, dim.value), dim.pos, dim.allocs)

\* the loop that reads `remaining` dimensions of a tensor, `st` being the shape
\* and the position before them (or the error that ended the loop); the
\* rounds of the second half follow those of the first
RECURSIVE read_shape(_, _, _)
read_shape(inp, remaining, st) ==
    IF ~st.ok \/ remaining = 0 THEN st
    ELSE IF remaining = 1 THEN shape_push(st, read_u64(inp, st.pos, st.allocs))
    ELSE read_shape(inp, remaining - remaining \div 2,
                    read_shape(inp, remaining \div 2, st))

\* the offset is read and dropped: what the round has read
tensor_of_offset(name, shape, dtype, offset) ==
    IF ~offset.ok THEN offset
    ELSE Done([name |-> name, shape |-> shape, dtype |-> dtype],
              offset.pos, offset.allocs)

tensor_of_dtype(inp, name, shape, dtype) ==
    IF ~dtype.ok THEN dtype
    ELSE tensor_of_offset(name, shape, dtype.value,
                          read_u64(inp, dtype.pos, dtype.allocs))

tensor_of_shape(inp, name, shape) ==
    IF ~shape.ok THEN shape
    ELSE tensor_of_dtype(inp, name, shape.value,
                         read_u32(inp, shape.pos, shape.allocs))

\* n_dims is read: the ceiling, then the dimensions
tensor_of_dims(inp, name, n_dims) ==
    IF ~n_dims.ok THEN n_dims
    ELSE IF BigLess(FromInt(MAX_DIMENSIONS), n_dims.value)
    THEN Fail(DimensionsTooLarge(n_dims.value, MAX_DIMENSIONS),
              n_dims.pos, n_dims.allocs)
    ELSE tensor_of_shape(inp, name,
                         read_shape(inp, ToInt(n_dims.value),
                                    Done(<<>>, n_dims.pos, n_dims.allocs)))

tensor_of_name(inp, name) ==
    IF ~name.ok THEN name
    ELSE tensor_of_dims(inp, name.value, read_u32(inp, name.pos, name.allocs))

\* what one round of the tensor loop reads: name, n_dims, shape, dtype, offset
read_tensor_info(inp, p, al) == tensor_of_name(inp, read_string(inp, p, al))

---------------------------------------------------------------------------
(* parse_gguf, one action for each header field and for each round of the  *)
(* two loops.                                                              *)

\* return with a result: Err(..), Ok(artifact), or the panic that ended it
Return(res, p, al) ==
    /\ gpc' = "done"
    /\ outcome' = res
    /\ pos' = p
    /\ allocs' = al

\* a header field was read and accepted
Advance(next, p) ==
    /\ gpc' = next
    /\ pos' = p
    /\ UNCHANGED <<allocs, outcome>>

\* the magic is read and not compared
ReadMagic_unchecked ==
    /\ gpc = "magic"
    /\ LET magic == read_u32(input, pos, allocs)
       IN  IF ~magic.ok THEN Return(Err(magic.err), magic.pos, allocs)
           ELSE Advance("version", magic.pos)
    /\ UNCHANGED <<input, version, tensor_count, metadata_kv_count, metadata,
                   tensors, kv_read, tensors_read, overflow_checks,
                   valueVars, artVars, stVars>>

\* let magic = read_u32(reader)?; if magic != GGUF_MAGIC { return Err(..) }
ReadMagic ==
    /\ gpc = "magic"
    /\ LET magic == read_u32(input, pos, allocs)
       IN  IF ~magic.ok THEN Return(Err(magic.err), magic.pos, allocs)
           ELSE IF magic.value # GGUF_MAGIC
           THEN Return(Err(InvalidMagic), magic.pos, allocs)
           ELSE Advance("version", magic.pos)
    /\ UNCHANGED <<input, version, tensor_count, metadata_kv_count, metadata,
                   tensors, kv_read, tensors_read, overflow_checks,
                   valueVars, artVars, stVars>>

ReadVersion ==
    /\ gpc = "version"
    /\ LET v == read_u32(input, pos, allocs)
       IN  IF ~v.ok
           THEN Return(Err(v.err), v.pos, allocs) /\ UNCHANGED version
           ELSE IF BigLess(FromInt(MAX_VERSION), v.value)
           THEN /\ Return(Err(UnsupportedVersion(v.value)), v.pos, allocs)
                /\ UNCHANGED version
           ELSE Advance("tensor_count", v.pos) /\ version' = v.value
    /\ UNCHANGED <<input, tensor_count, metadata_kv_count, metadata,
                   tensors, kv_read, tensors_read, overflow_checks,
                   valueVars, artVars, stVars>>

ReadTensorCount ==
    /\ gpc = "tensor_count"
    /\ LET count == read_u64(input, pos, allocs)
       IN  IF ~count.ok
           THEN Return(Err(count.err), count.pos, allocs) /\ UNCHANGED tensor_count
           ELSE IF BigLess(FromInt(MAX_TENSOR_COUNT), count.value)
           THEN /\ Return(Err(TensorCountTooLarge(count.value, MAX_TENSOR_COUNT)),
                          count.pos, allocs)
                /\ UNCHANGED tensor_count
           ELSE Advance("metadata_kv_count", count.pos) /\ tensor_count' = count.value
    /\ UNCHANGED <<input, version, metadata_kv_count, metadata,
                   tensors, kv_read, tensors_read, overflow_checks,
                   valueVars, artVars, stVars>>

ReadMetadataCount ==
    /\ gpc = "metadata_kv_count"
    /\ LET count == read_u64(input, pos, allocs)
       IN  IF ~count.ok
           THEN /\ Return(Err(count.err), count.pos, allocs)
                /\ UNCHANGED metadata_kv_count
           ELSE IF BigLess(FromInt(MAX_METADATA_COUNT), count.value)
           THEN /\ Return(Err(MetadataCountTooLarge(count.value,
                                                    MAX_METADATA_COUNT)),
                          count.pos, allocs)
                /\ UNCHANGED metadata_kv_count
           ELSE Advance("records", count.pos) /\ metadata_kv_count' = count.value
    /\ UNCHANGED <<input, version, tensor_count, metadata,
                   tensors, kv_read, tensors_read, overflow_checks,
                   valueVars, artVars, stVars>>

\* metadata.insert(key, value), or the error of read_kv
KvRead(kv) ==
    IF ~kv.ok
    THEN Return(Err(kv.err), kv.pos, kv.allocs) /\ UNCHANGED <<metadata, kv_read>>
    ELSE /\ metadata' = BTreeMap_insert(metadata, kv.value.key, kv.value.value)
         /\ kv_read' = kv_read + 1
         /\ pos' = kv.pos
         /\ allocs' = kv.allocs
         /\ UNCHANGED <<gpc, outcome>>

\* one round of `for _ in 0..metadata_kv_count`
ReadKv ==
    /\ gpc = "records"
    /\ kv_read < ToInt(metadata_kv_count)
    /\ KvRead(read_kv(input, pos, allocs))
    /\ UNCHANGED <<input, version, tensor_count, metadata_kv_count,
                   tensors, tensors_read, overflow_checks, valueVars, artVars, stVars>>

\* tensors.insert(name, Tensor { .. }), or the panic of compute_byte_length
TensorStored(info, p, al, byte_length) ==
    IF byte_length.kind = "Panic"
    THEN Return(byte_length, p, al) /\ UNCHANGED <<tensors, tensors_read>>
    ELSE /\ tensors' = BTreeMap_insert(tensors, info.name,
                            Tensor(info.name, gguf_dtype_str(info.dtype),
                                   info.shape, byte_length.value))
         /\ tensors_read' = tensors_read + 1
         /\ pos' = p
         /\ allocs' = al
         /\ UNCHANGED <<gpc, outcome>>

TensorRead(info) ==
    IF ~info.ok
    THEN /\ Return(Err(info.err), info.pos, info.allocs)
         /\ UNCHANGED <<tensors, tensors_read>>
    ELSE TensorStored(info.value, info.pos, info.allocs,
                      compute_byte_length(info.value.shape, info.value.dtype,
                                          overflow_checks))

\* one round of `for _ in 0..tensor_count`
ReadTensor ==
    /\ gpc = "records"
    /\ kv_read = ToInt(metadata_kv_count)
    /\ tensors_read < ToInt(tensor_count)
    /\ TensorRead(read_tensor_info(input, pos, allocs))
    /\ UNCHANGED <<input, version, tensor_count, metadata_kv_count,
                   metadata, kv_read, overflow_checks, valueVars, artVars, stVars>>

\* Ok(Artifact { format: GGUF, gguf_version: Some(version as i64), .. })
Finish ==
    /\ gpc = "records"
    /\ kv_read = ToInt(metadata_kv_count)
    /\ tensors_read = ToInt(tensor_count)
    /\ Return(Ok(Artifact("GGUF", Some(version), metadata, tensors)), pos, allocs)
    /\ UNCHANGED <<input, version, tensor_count, metadata_kv_count, metadata,
                   tensors, kv_read, tensors_read, overflow_checks,
                   valueVars, artVars, stVars>>

NextGguf ==
    \/ ReadMagic \/ ReadVersion \/ ReadTensorCount \/ ReadMetadataCount
    \/ ReadKv \/ ReadTensor \/ Finish

---------------------------------------------------------------------------
(* The byte streams given to the parser: headers with counts around the    *)
(* ceilings, records of every value type and tensor dtype, streams that    *)
(* end early, and counts that do not match the records that follow.        *)

MaxRecords == 2

\* x in n bytes, little-endian
LE(x, n) == [i \in 1..n |-> Digit(x, i)]

U32(n) == LE(FromInt(n), 4)
U64(n) == LE(FromInt(n), 8)

AllOnes(n) == [i \in 1..n |-> 255]

\* a string: its length, then its bytes
StringBytes(bytes) == U64(Len(bytes)) \o bytes

HeaderBytes(magic, ver, tensor_n, metadata_n) ==
    magic \o LE(ver, 4) \o LE(tensor_n, 8) \o LE(metadata_n, 8)

GoodHeader(tensor_n, metadata_n) ==
    HeaderBytes(GGUF_MAGIC, FromInt(3), FromInt(tensor_n), FromInt(metadata_n))

HeaderStreams ==
    {HeaderBytes(magic, ver, tensor_n, metadata_n) :
        magic \in {GGUF_MAGIC, <<71, 71, 77, 76>>},
        ver \in {<<>>, FromInt(3), FromInt(MAX_VERSION), FromInt(MAX_VERSION + 1)},
        tensor_n \in {<<>>, FromInt(1), FromInt(MAX_TENSOR_COUNT),
                      FromInt(MAX_TENSOR_COUNT + 1),
                      BigAdd(Pow2(32), FromInt(1)), U64_MAX},
        metadata_n \in {<<>>, FromInt(1), FromInt(MAX_METADATA_COUNT),
                        FromInt(MAX_METADATA_COUNT + 1)}}

\* value type and payload
ValueBytes ==
    {U32(0) \o <<5>>,                        \* u8 5
     U32(1) \o <<255>>,                      \* i8 -1
     U32(2) \o <<52, 18>>,                   \* u16 0x1234
     U32(3) \o <<255, 255>>,                 \* i16 -1
     U32(4) \o AllOnes(4),                   \* u32::MAX
     U32(5) \o AllOnes(4),                   \* i32 -1
     U32(6) \o <<0, 0, 192, 63>>,            \* f32 1.5
     U32(6) \o <<0, 0, 192, 127>>,           \* f32 NaN
     U32(7) \o <<1>>, U32(7) \o <<0>>, U32(7) \o <<2>>,
     U32(8) \o StringBytes(<<97>>),          \* "a"
     U32(8) \o StringBytes(<<195, 169>>),    \* U+00E9
     U32(8) \o StringBytes(<<255>>),         \* not UTF-8
     U32(8) \o StringBytes(<<>>),
     U32(8) \o U64(MAX_STRING_LENGTH) \o <<97>>,
     U32(8) \o U64(MAX_STRING_LENGTH + 1) \o <<97>>,
     U32(10) \o AllOnes(8),                  \* u64::MAX
     U32(11) \o AllOnes(8),                  \* i64 -1
     U32(12) \o <<0, 0, 0, 0, 0, 0, 248, 63>>,    \* f64 1.5
     U32(12) \o <<1, 0, 0, 0, 0, 0, 240, 127>>,   \* an f64 NaN
     U32(13), AllOnes(4)}

\* arrays: element type, count, elements
ArrayBytes ==
    {U32(9) \o U32(0) \o U64(2) \o <<1, 2>>,
     U32(9) \o U32(8) \o U64(1) \o StringBytes(<<97>>),
     U32(9) \o U32(6) \o U64(0),
     U32(9) \o U32(0) \o U64(MAX_ARRAY_ELEMENTS) \o <<1, 2>>,
     U32(9) \o U32(0) \o U64(MAX_ARRAY_ELEMENTS + 1) \o <<1, 2>>,
     U32(9) \o U32(0) \o LE(BigAdd(Pow2(32), FromInt(1)), 8) \o <<1, 2>>,
     U32(9) \o U32(13) \o U64(0),
     U32(9) \o U32(13) \o U64(1) \o <<1>>,
     U32(9) \o U32(9) \o U64(1) \o U32(0) \o U64(0),
     U32(9) \o U32(10) \o U64(1) \o AllOnes(8),
     U32(9) \o U32(8) \o U64(1) \o U64(MAX_STRING_LENGTH + 1)}

KvStreams ==
    {StringBytes(<<97>>) \o v : v \in ValueBytes \cup ArrayBytes}
    \cup {StringBytes(k) \o U32(0) \o <<5>> : k \in {<<>>, <<98>>, <<255>>}}
    \cup {U64(MAX_STRING_LENGTH) \o <<97>>, U64(MAX_STRING_LENGTH + 1) \o <<97>>,
          AllOnes(8)}

\* the records that may follow a first one: the same key again, another key
MoreKvStreams ==
    {StringBytes(<<97>>) \o U32(0) \o <<7>>,
     StringBytes(<<98>>) \o U32(7) \o <<1>>}

KnownDtypes == {0, 1, 24, 25, 26, 27, 28, 30}

DtypeCodes == {U32(c) : c \in KnownDtypes \cup {2, 31, 99}} \cup {AllOnes(4)}

\* n_dims and the dimensions
ShapeBytes ==
    {U32(0),
     U32(2) \o U64(4) \o U64(4),
     U32(1) \o U64(0),
     U32(1) \o LE(Pow2(62), 8),
     U32(1) \o LE(BigAdd(Pow2(62), FromInt(1)), 8),
     U32(1) \o AllOnes(8),
     U32(2) \o LE(Pow2(32), 8) \o LE(Pow2(32), 8),
     U32(3) \o LE(Pow2(63), 8) \o U64(2) \o U64(3),
     U32(2) \o LE(Pow2(31), 8) \o LE(Pow2(31), 8),
     U32(MAX_DIMENSIONS) \o Flatten([i \in 1..MAX_DIMENSIONS |-> U64(1)]),
     U32(MAX_DIMENSIONS + 1) \o Flatten([i \in 1..(MAX_DIMENSIONS + 1) |-> U64(1)]),
     AllOnes(4)}

TensorStreams ==
    {StringBytes(<<116>>) \o sh \o dt \o U64(0) : sh \in ShapeBytes, dt \in DtypeCodes}

MoreTensorStreams ==
    {StringBytes(<<116>>) \o U32(0) \o U32(1) \o U64(0),
     StringBytes(<<117>>) \o U32(1) \o U64(8) \o U32(0) \o U64(32)}

\* a first record followed by up to n - 1 more
RECURSIVE RecordRuns(_, _, _)
RecordRuns(first, more, n) ==
    IF n <= 1 THEN first
    ELSE LET shorter == RecordRuns(first, more, n - 1)
         IN  shorter \cup {r \o m : r \in shorter, m \in more}

MetadataStreams ==
    {GoodHeader(0, n) \o body :
        n \in 1..MaxRecords, body \in RecordRuns(KvStreams, MoreKvStreams, MaxRecords)}

TensorOnlyStreams ==
    {GoodHeader(n, 0) \o body :
        n \in 1..MaxRecords,
        body \in RecordRuns(TensorStreams, MoreTensorStreams, MaxRecords)}

\* complete files with metadata and tensors
FullStreams ==
    {GoodHeader(1, 1) \o kv \o t :
        kv \in {StringBytes(<<97>>) \o U32(8) \o StringBytes(<<97>>),
                StringBytes(<<97>>) \o U32(9) \o U32(0) \o U64(2) \o <<1, 2>>},
        t \in {StringBytes(<<116>>) \o U32(2) \o U64(4) \o U64(4) \o U32(0) \o U64(0)}}

Prefixes(bytes) == {SubSeq(bytes, 1, n) : n \in 0..Len(bytes)}

\* a metadata record with an array of 100,001 elements, and one of a value
\* type that does not exist
MalformedKvs ==
    {StringBytes(<<97>>) \o U32(9) \o U32(0) \o U64(MAX_ARRAY_ELEMENTS + 1),
     StringBytes(<<97>>) \o U32(13)}

\* a tensor record with 33 dimensions
MalformedTensor ==
    StringBytes(<<116>>) \o U32(MAX_DIMENSIONS + 1)
        \o Flatten([i \in 1..(MAX_DIMENSIONS + 1) |-> U64(1)])

\* files with one metadata record and one tensor record, either or both
\* malformed
MalformedStreams ==
    {GoodHeader(1, 1) \o kv \o t :
        kv \in MalformedKvs \cup {StringBytes(<<97>>) \o U32(0) \o <<5>>},
        t \in {MalformedTensor,
               StringBytes(<<116>>) \o U32(1) \o U64(8) \o U32(0) \o U64(0)}}

Streams ==
    HeaderStreams \cup MetadataStreams \cup TensorOnlyStreams \cup FullStreams
        \cup UNION {Prefixes(f) : f \in FullStreams} \cup MalformedStreams

InitGguf ==
    /\ gpc = "magic"
    /\ input \in Streams
    /\ overflow_checks \in BOOLEAN
    /\ pos = 0
    /\ version = <<>> /\ tensor_count = <<>> /\ metadata_kv_count = <<>>
    /\ metadata = BTreeMap_new /\ tensors = BTreeMap_new
    /\ kv_read = 0 /\ tensors_read = 0
    /\ allocs = <<>>
    /\ outcome = None
    /\ ValueIdle /\ ArtIdle /\ StIdle

SpecGguf == InitGguf /\ [][NextGguf]_vars

---------------------------------------------------------------------------
(* Properties of parse_gguf (SpecGguf).                                    *)

\* the number in the n bytes of the stream that follow offset p
FieldAt(p, n) == Norm(SubSeq(input, p + 1, p + n))

Exceeds(x, ceiling) == BigLess(FromInt(ceiling), x)

\* C8: parse_gguf never panics: whatever the bytes, it returns Ok(artifact)
\* or Err(error); and a stream that ends before a field is complete gives an
\* error, never an artifact.
C8_ParseTotal ==
    gpc = "done" =>
        /\ outcome.kind \in {"Ok", "Err"}
        /\ (\E f \in FullStreams : input \in Prefixes(f) \ {f}) =>
                outcome.kind = "Err"

\* the width in bytes of an element of a plain dtype, 0 for any other dtype
ElementWidth(dtype) ==
    CASE dtype \in {gguf_dtype_str(FromInt(0)), gguf_dtype_str(FromInt(26))} -> 4
      [] dtype \in {gguf_dtype_str(FromInt(1)), gguf_dtype_str(FromInt(25)),
                    gguf_dtype_str(FromInt(30))} -> 2
      [] dtype = gguf_dtype_str(FromInt(24)) -> 1
      [] dtype \in {gguf_dtype_str(FromInt(27)), gguf_dtype_str(FromInt(28))} -> 8
      [] OTHER -> 0

RECURSIVE ProductOf(_)
ProductOf(shape) ==
    IF shape = <<>> THEN FromInt(1)
    ELSE IF Len(shape) = 1 THEN shape[1]
    ELSE BigMul(ProductOf(SubSeq(shape, 1, Len(shape) \div 2)),
                ProductOf(SubSeq(shape, Len(shape) \div 2 + 1, Len(shape))))

\* the product of the dimensions, 0 when it does not fit in 64 bits
SaturatedProduct(shape) ==
    IF BigLeq(ProductOf(shape), U64_MAX) THEN ProductOf(shape) ELSE <<>>

\* C9: the byte_length of every parsed tensor is the product of its dimensions
\* (0 when the product overflows 64 bits, 1 for an empty shape) times the
\* element width of its dtype (4, 2, 1 or 8 for the plain dtypes, else 0).
C9_ByteLength ==
    \A i \in 1..Len(tensors) :
        tensors[i].value.byte_length =
            BigMul(SaturatedProduct(tensors[i].value.shape),
                   FromInt(ElementWidth(tensors[i].value.dtype)))

\* the header was read and accepted up to the field that ends at offset n
HeaderAccepted(n) ==
    /\ Len(input) >= n
    /\ SubSeq(input, 1, 4) = GGUF_MAGIC
    /\ ~Exceeds(FieldAt(4, 4), MAX_VERSION)
    /\ n > 16 => ~Exceeds(FieldAt(8, 8), MAX_TENSOR_COUNT)
    /\ n > 24 => ~Exceeds(FieldAt(16, 8), MAX_METADATA_COUNT)

AllocationsWithinCeilings ==
    \A i \in 1..Len(allocs) :
        /\ allocs[i].what = "string" => ~Exceeds(allocs[i].size, MAX_STRING_LENGTH)
        /\ allocs[i].what = "array" => ~Exceeds(allocs[i].size, MAX_ARRAY_ELEMENTS)

TensorCountChecked ==
    HeaderAccepted(16) =>
        IF Exceeds(FieldAt(8, 8), MAX_TENSOR_COUNT)
        THEN /\ outcome = Err(TensorCountTooLarge(FieldAt(8, 8), MAX_TENSOR_COUNT))
             /\ pos = 16 /\ kv_read = 0 /\ tensors_read = 0 /\ allocs = <<>>
        ELSE tensor_count = FieldAt(8, 8)

MetadataCountChecked ==
    HeaderAccepted(24) =>
        IF Exceeds(FieldAt(16, 8), MAX_METADATA_COUNT)
        THEN /\ outcome = Err(MetadataCountTooLarge(FieldAt(16, 8),
                                                    MAX_METADATA_COUNT))
             /\ pos = 24 /\ kv_read = 0 /\ tensors_read = 0 /\ allocs = <<>>
        ELSE metadata_kv_count = FieldAt(16, 8)

\* the length of the first key, when there is metadata
FirstStringChecked ==
    (HeaderAccepted(32) /\ FieldAt(16, 8) # <<>>) =>
        IF Exceeds(FieldAt(24, 8), MAX_STRING_LENGTH)
        THEN outcome = Err(InvalidHeader) /\ pos = 32 /\ allocs = <<>>
        ELSE FieldAt(24, 8) # <<>> => allocs[1] = Alloc("string", FieldAt(24, 8))

\* the count of an array that is the first value, under a key of one byte
FirstArrayChecked ==
    (/\ HeaderAccepted(49) /\ FieldAt(16, 8) # <<>>
     /\ FieldAt(24, 8) = FromInt(1) /\ input[33] < 128
     /\ FieldAt(33, 4) = FromInt(9)) =>
        IF Exceeds(FieldAt(41, 8), MAX_ARRAY_ELEMENTS)
        THEN /\ outcome = Err(ArrayTooLarge(FieldAt(41, 8), MAX_ARRAY_ELEMENTS))
             /\ pos = 49 /\ kv_read = 0
             /\ allocs = <<Alloc("string", FromInt(1))>>
        ELSE allocs[2] = Alloc("array", FieldAt(41, 8))

\* the number of dimensions of the first tensor, under a name of one byte,
\* when there is no metadata
FirstDimensionsChecked ==
    (/\ HeaderAccepted(37) /\ FieldAt(16, 8) = <<>> /\ FieldAt(8, 8) # <<>>
     /\ FieldAt(24, 8) = FromInt(1) /\ input[33] < 128) =>
        IF Exceeds(FieldAt(33, 4), MAX_DIMENSIONS)
        THEN /\ outcome = Err(DimensionsTooLarge(FieldAt(33, 4), MAX_DIMENSIONS))
             /\ pos = 37 /\ tensors_read = 0
        ELSE ~(tensors_read = 0 /\ outcome.kind = "Err"
               /\ outcome.error.error = "DimensionsTooLarge")

\* a size error reports the field just read, as it was read
SizeErrorsReportTheField ==
    outcome.kind = "Err" =>
        LET e == outcome.error
        IN  /\ e.error = "ArrayTooLarge" =>
                /\ Exceeds(e.count, MAX_ARRAY_ELEMENTS)
                /\ e.count = FieldAt(pos - 8, 8)
            /\ e.error = "DimensionsTooLarge" =>
                /\ Exceeds(e.dims, MAX_DIMENSIONS)
                /\ e.dims = FieldAt(pos - 4, 4)
            /\ e.error = "TensorCountTooLarge" => Exceeds(e.count, MAX_TENSOR_COUNT)
            /\ e.error = "MetadataCountTooLarge" =>
                Exceeds(e.count, MAX_METADATA_COUNT)

\* C10: every size of the header is compared with its ceiling before anything
\* is read, looped over or allocated by it: a tensor count above 100,000 ends
\* the parse with TensorCountTooLarge before any record is read, a metadata
\* count above 10,000 with MetadataCountTooLarge, an array count above 100,000
\* with ArrayTooLarge before the vector is allocated, more than 32 dimensions
\* with DimensionsTooLarge, a string length above 1,000,000 with InvalidHeader
\* before the buffer is allocated; a value at its ceiling is accepted, and no
\* value is truncated or clamped.
C10_CeilingsBeforeUse ==
    /\ AllocationsWithinCeilings
    /\ gpc = "done" =>
        /\ TensorCountChecked
        /\ MetadataCountChecked
        /\ FirstStringChecked
        /\ FirstArrayChecked
        /\ FirstDimensionsChecked
        /\ SizeErrorsReportTheField

\* an array of 100,001 elements is refused before its vector is allocated
C10_Witness ==
    /\ gpc = "done"
    /\ outcome = Err(ArrayTooLarge(FromInt(MAX_ARRAY_ELEMENTS + 1),
                                   MAX_ARRAY_ELEMENTS))
    /\ pos = 49
    /\ allocs = <<Alloc("string", FromInt(1))>>

\* the version field was read from a header whose magic is right
VersionRead ==
    /\ Len(input) >= 8
    /\ FieldAt(0, 4) = GGUF_MAGIC
    /\ gpc \notin {"magic", "version"}

\* C11: a header with the right magic is accepted exactly when its version
\* field is 1, 2, 3 or 4: any other version, below 1 or above 4, ends the parse
\* with UnsupportedVersion carrying that value, and an accepted version v is
\* the artifact's version Some(v).
C11_VersionAccepted ==
    VersionRead =>
        IF BigLeq(FromInt(1), FieldAt(4, 4)) /\ BigLeq(FieldAt(4, 4), FromInt(4))
        THEN /\ version = FieldAt(4, 4)
             /\ outcome # Err(UnsupportedVersion(FieldAt(4, 4)))
             /\ (gpc = "done" /\ outcome.kind = "Ok") =>
                    outcome.value.gguf_version = Some(FieldAt(4, 4))
        ELSE /\ gpc = "done"
             /\ outcome = Err(UnsupportedVersion(FieldAt(4, 4)))

\* the first metadata record, under a key of one byte, has its value type at
\* offset 33
FirstValueAt33 ==
    /\ HeaderAccepted(37) /\ FieldAt(16, 8) # <<>>
    /\ FieldAt(24, 8) = FromInt(1) /\ input[33] < 128

\* the record is refused with InvalidHeader: nothing of it is kept
FirstKvInvalidHeader ==
    /\ kv_read = 0
    /\ gpc = "done" => outcome = Err(InvalidHeader)

\* a value type that is none of 0..12
UnknownValueTypeFails ==
    (FirstValueAt33 /\ BigLess(FromInt(12), FieldAt(33, 4))) =>
        FirstKvInvalidHeader

\* an array (value type 9) whose element type is none of 0..8, its count read
UnknownElementTypeFails ==
    (/\ FirstValueAt33 /\ Len(input) >= 49
     /\ FieldAt(33, 4) = FromInt(9)
     /\ BigLess(FromInt(8), FieldAt(37, 4))) =>
        FirstKvInvalidHeader

\* the first tensor record, under a name of one byte, when there is no
\* metadata: n dimensions, the dtype code at offset 37 + 8 * n, the offset
FirstTensorComplete(n) ==
    /\ HeaderAccepted(37) /\ FieldAt(16, 8) = <<>> /\ FieldAt(8, 8) # <<>>
    /\ FieldAt(24, 8) = FromInt(1) /\ input[33] < 128
    /\ FieldAt(33, 4) = FromInt(n)
    /\ Len(input) >= 37 + 8 * n + 12

\* a dtype code outside the table does not fail the parse: the tensor is kept
\* as "unknown_<code>" with byte_length 0
UnknownDtypeKept ==
    \A n \in 0..MAX_DIMENSIONS :
        (/\ FirstTensorComplete(n)
         /\ gguf_dtype_str(FieldAt(37 + 8 * n, 4))
                = Str_unknown \o Decimal(FieldAt(37 + 8 * n, 4))) =>
            /\ ~(gpc = "done" /\ tensors_read = 0)
            /\ tensors_read = 1 =>
                   /\ Len(tensors) = 1
                   /\ tensors[1].value.dtype
                          = Str_unknown \o Decimal(FieldAt(37 + 8 * n, 4))
                   /\ tensors[1].value.byte_length = <<>>

\* C12: a metadata value type that is not a known kind, and an array whose
\* element type is not a known scalar kind, whatever its count (0 included),
\* end the parse with InvalidHeader; a tensor dtype code outside the table
\* never does: the tensor has dtype "unknown_<code>" and byte_length 0.
C12_UnknownTags ==
    /\ UnknownValueTypeFails
    /\ UnknownElementTypeFails
    /\ UnknownDtypeKept

\* the first metadata record has been read and kept, and no other
FirstValueKept ==
    /\ FirstValueAt33 /\ Len(input) >= 41
    /\ kv_read = 1 /\ Len(metadata) = 1

\* a Float read from the 8 bytes at offset 37 is written as the decimal
\* digits of those 64 bits
FloatToken ==
    (FirstValueKept /\ FieldAt(33, 4) = FromInt(12)) =>
        /\ metadata[1].value.tag = "Float"
        /\ serialize_value(metadata[1].value) = Decimal(FieldAt(37, 8))

\* C20: a 32-bit float read from GGUF with the 32-bit pattern p is written
\* by serialize_value as "f32:" followed by the decimal digits of p, a
\* number below 2^32, and the decoder gives the same Float32 value back for
\* that token; a Float is written as the decimal digits of its 64-bit
\* pattern.
C20_Float32Token ==
    /\ (FirstValueKept /\ FieldAt(33, 4) = FromInt(6)) =>
            LET v == metadata[1].value
                p == FieldAt(37, 4)
                back == deserialize(serialize_value(v))
            IN  /\ v.tag = "Float32"
                /\ BigLess(p, Pow2(32))
                /\ serialize_value(v) = Str_f32 \o Decimal(p)
                /\ back.kind = "Ok" /\ CanonicalValue_eq(back.value, v)
    /\ FloatToken

\* the width in bytes of the integer value types
UnsignedWidth(type) == CASE type = 0 -> 1 [] type = 2 -> 2 [] type = 4 -> 4 [] type = 10 -> 8
SignedWidth(type) == CASE type = 1 -> 1 [] type = 3 -> 2 [] type = 5 -> 4 [] type = 11 -> 8

\* the i64 with two's complement pattern p is the number n >= 0
IsNumber(p, n) == BigLess(p, Pow2(63)) /\ p = n

\* the i64 with pattern p is the number -m, m > 0
IsNegated(p, m) == BigLeq(Pow2(63), p) /\ BigSub(Pow2(64), p) = m

\* the first metadata record is an integer of the type and has been kept
FirstIntegerKept(types) ==
    /\ FirstValueAt33 /\ kv_read = 1 /\ Len(metadata) = 1
    /\ Len(FieldAt(33, 4)) <= 1 /\ ToInt(FieldAt(33, 4)) \in types

\* the signed values, and the unsigned ones of 8, 16 and 32 bits, are stored
\* as the number read
NarrowIntegersExact ==
    /\ FirstIntegerKept({0, 2, 4}) =>
            IsNumber(metadata[1].value.i,
                     FieldAt(37, UnsignedWidth(ToInt(FieldAt(33, 4)))))
    /\ FirstIntegerKept({1, 3, 5, 11}) =>
            LET w == SignedWidth(ToInt(FieldAt(33, 4)))
                x == FieldAt(37, w)
                p == metadata[1].value.i
            IN  IF BigLess(x, Pow2(8 * w - 1)) THEN IsNumber(p, x)
                ELSE IsNegated(p, BigSub(Pow2(8 * w), x))

\* C27: every integer metadata value of parse_gguf is the number written in
\* the file: Uint8, Uint16, Uint32 and Uint64 values are non-negative and
\* equal to the unsigned little-endian value read, over the whole unsigned
\* range of their width; Int8, Int16, Int32 and Int64 values equal the
\* signed little-endian value read.
C27_IntegersExact ==
    /\ NarrowIntegersExact
    /\ FirstIntegerKept({10}) =>
            /\ metadata[1].value.tag = "Uint64"
            /\ IsNumber(metadata[1].value.i, FieldAt(37, 8))

\* the record of the stream at offset p: a metadata record or a tensor record
RecordAt(tensor, p) ==
    IF tensor THEN read_tensor_info(input, p, <<>>) ELSE read_kv(input, p, <<>>)

\* the n records that follow offset p in the stream, in file order, and the
\* offset after the last of them
RECURSIVE RecordsFrom(_, _, _, _)
RecordsAfter(tensor, r, n, acc) ==
    RecordsFrom(tensor, r.pos, n - 1, Append(acc, r.value))

RecordsFrom(tensor, p, n, acc) ==
    IF n = 0 THEN [items |-> acc, pos |-> p]
    ELSE RecordsAfter(tensor, RecordAt(tensor, p), n, acc)

\* some key is the key of two of the records
Repeats(keys) == \E i, j \in 1..Len(keys) : i < j /\ keys[i] = keys[j]

\* the place of the last record with the key
LastOf(keys, k) ==
    CHOOSE i \in 1..Len(keys) : keys[i] = k /\ \A j \in (i + 1)..Len(keys) : keys[j] # k

\* the map holds the keys of the records, each with what `kept` makes of the
\* last record of that key, and fewer entries than records exactly when a
\* key repeats
HoldsLastOfEach(map, records, keys, kept(_)) ==
    /\ Len(map) <= Len(records)
    /\ Len(map) < Len(records) <=> Repeats(keys)
    /\ KeySet(map) = {keys[i] : i \in 1..Len(keys)}
    /\ \A i \in 1..Len(map) :
          map[i].value = kept(records[LastOf(keys, map[i].key)])

MetadataHoldsLast(art, kvs) ==
    HoldsLastOfEach(art.metadata, kvs, [i \in 1..Len(kvs) |-> kvs[i].key],
                    LAMBDA kv : kv.value)

\* of a tensor, the name, the dtype and the shape are what the record says
TensorsHoldLast(art, infos) ==
    /\ Len(art.tensors) <= Len(infos)
    /\ Len(art.tensors) < Len(infos) <=>
            Repeats([i \in 1..Len(infos) |-> infos[i].name])
    /\ KeySet(art.tensors) = {infos[i].name : i \in 1..Len(infos)}
    /\ \A i \in 1..Len(art.tensors) :
          LET info == infos[LastOf([j \in 1..Len(infos) |-> infos[j].name],
                                   art.tensors[i].key)]
              t == art.tensors[i].value
          IN  /\ t.name = info.name
              /\ t.dtype = gguf_dtype_str(info.dtype)
              /\ t.shape = info.shape

FileHoldsLast(art, kvs) ==
    /\ MetadataHoldsLast(art, kvs.items)
    /\ TensorsHoldLast(art, RecordsFrom(TRUE, kvs.pos,
                                        ToInt(FieldAt(8, 8)), <<>>).items)

\* C28: when parse_gguf succeeds on a header declaring T tensors and M
\* metadata entries, the artifact holds at most T tensors and at most M
\* metadata entries, fewer exactly when a tensor name or a metadata key is
\* in the file more than once; a repeated key or name is no error and the
\* artifact keeps the value of its last occurrence in file order.
C28_RepeatedKeysKeepLast ==
    (gpc = "done" /\ outcome.kind = "Ok") =>
        FileHoldsLast(outcome.value,
                      RecordsFrom(FALSE, 24, ToInt(FieldAt(16, 8)), <<>>))

\* the key "a" twice: one entry, with the value of the second record
C28_Witness ==
    /\ gpc = "done" /\ outcome.kind = "Ok"
    /\ FieldAt(16, 8) = FromInt(2)
    /\ Len(outcome.value.metadata) = 1
    /\ outcome.value.metadata[1] = Entry(<<97>>, IntValue("Uint8", FromInt(7)))

\* the tensor name "t" twice: one tensor
C28_WitnessTensors ==
    /\ gpc = "done" /\ outcome.kind = "Ok"
    /\ FieldAt(8, 8) = FromInt(2)
    /\ Len(outcome.value.tensors) = 1

\* two keys, two entries
C28_WitnessDistinct ==
    /\ gpc = "done" /\ outcome.kind = "Ok"
    /\ FieldAt(16, 8) = FromInt(2)
    /\ Len(outcome.value.metadata) = 2

\* the first of the four header fields that is refused, in the order magic,
\* version, tensor count, metadata count, for a stream of 24 bytes or more
FirstHeaderViolation ==
    IF SubSeq(input, 1, 4) # GGUF_MAGIC THEN Some(InvalidMagic)
    ELSE IF Exceeds(FieldAt(4, 4), MAX_VERSION)
    THEN Some(UnsupportedVersion(FieldAt(4, 4)))
    ELSE IF Exceeds(FieldAt(8, 8), MAX_TENSOR_COUNT)
    THEN Some(TensorCountTooLarge(FieldAt(8, 8), MAX_TENSOR_COUNT))
    ELSE IF Exceeds(FieldAt(16, 8), MAX_METADATA_COUNT)
    THEN Some(MetadataCountTooLarge(FieldAt(16, 8), MAX_METADATA_COUNT))
    ELSE None

\* C26: parse_gguf validates the header in the order magic, version, tensor
\* count, metadata count and reports the first violation in that order (a
\* bad magic with tensor count 100,001 gives InvalidMagic; tensor count
\* 100,001 with metadata count 10,001 gives TensorCountTooLarge); it reads
\* all metadata records before the first tensor record, so of a malformed
\* metadata record and a malformed tensor record the error of the metadata
\* record is the one returned.
C26_ValidationOrder ==
    /\ (gpc = "done" /\ Len(input) >= 24 /\ FirstHeaderViolation.some) =>
            outcome = Err(FirstHeaderViolation.v)
    /\ (gpc \in {"records", "done"} /\ Len(input) >= 24 /\ ~FirstHeaderViolation.some
            /\ kv_read < ToInt(FieldAt(16, 8))) =>
            /\ tensors_read = 0 /\ tensors = <<>>
            /\ gpc = "done" => outcome.kind = "Err"
    /\ (gpc = "done" /\ \E kv \in MalformedKvs :
                            input = GoodHeader(1, 1) \o kv \o MalformedTensor) =>
            /\ outcome.kind = "Err"
            /\ outcome.error.error \in {"ArrayTooLarge", "InvalidHeader"}
            /\ kv_read = 0 /\ tensors_read = 0

\* a bad magic with tensor count 100,001: InvalidMagic
C26_Witness ==
    /\ gpc = "done"
    /\ Len(input) >= 24 /\ SubSeq(input, 1, 4) # GGUF_MAGIC
    /\ FieldAt(8, 8) = FromInt(MAX_TENSOR_COUNT + 1)
    /\ outcome = Err(InvalidMagic)

\* tensor count 100,001 with metadata count 10,001: TensorCountTooLarge
C26_WitnessCounts ==
    /\ gpc = "done"
    /\ Len(input) >= 24
    /\ FieldAt(8, 8) = FromInt(MAX_TENSOR_COUNT + 1)
    /\ FieldAt(16, 8) = FromInt(MAX_METADATA_COUNT + 1)
    /\ outcome = Err(TensorCountTooLarge(FromInt(MAX_TENSOR_COUNT + 1),
                                        MAX_TENSOR_COUNT))

\* an array of 100,001 elements before a tensor of 33 dimensions:
\* ArrayTooLarge
C26_WitnessRecords ==
    /\ gpc = "done"
    /\ input = GoodHeader(1, 1) \o StringBytes(<<97>>) \o U32(9) \o U32(0)
                    \o U64(MAX_ARRAY_ELEMENTS + 1) \o MalformedTensor
    /\ outcome.kind = "Err" /\ outcome.error.error = "ArrayTooLarge"

\* the same tensor after a metadata record that is well formed:
\* DimensionsTooLarge
C26_WitnessTensor ==
    /\ gpc = "done"
    /\ input = GoodHeader(1, 1) \o StringBytes(<<97>>) \o U32(0) \o <<5>>
                    \o MalformedTensor
    /\ kv_read = 1
    /\ outcome.kind = "Err" /\ outcome.error.error = "DimensionsTooLarge"

---------------------------------------------------------------------------
(* serde_json::Value, as parse_safetensors uses it.  A Number is PosInt    *)
(* (u64), NegInt (i64 below zero, kept as its magnitude) or Float (kept as *)
(* the literal that wrote it); an Object keeps its members in key order.   *)

JNull         == [t |-> "Null"]
JBool(bv)     == [t |-> "Bool", b |-> bv]
JPosInt(n)    == [t |-> "Number", kind |-> "PosInt", n |-> n]
JNegInt(n)    == [t |-> "Number", kind |-> "NegInt", n |-> n]
JFloat(lit)   == [t |-> "Number", kind |-> "Float", lit |-> lit]
JString(str)  == [t |-> "String", s |-> str]
JArray(items) == [t |-> "Array", items |-> items]
JObject(map)  == [t |-> "Object", entries |-> map]

\* Value::as_u64: a number that is a non-negative integer
as_u64(v) ==
    IF v.t = "Number" /\ v.kind = "PosInt" THEN Some(v.n) ELSE None

\* Value::as_i64 / Number::as_i64: an integer that fits in i64, as its pattern
as_i64(v) ==
    IF v.t # "Number" THEN None
    ELSE IF v.kind = "PosInt"
    THEN (IF BigLeq(v.n, I64_MAX) THEN Some(v.n) ELSE None)
    ELSE IF v.kind = "NegInt" THEN Some(BigSub(Pow2(64), v.n))
    ELSE None

\* Number::as_f64: the nearest f64 of an integer, the f64 of a literal
as_f64(v) ==
    IF v.kind = "Float" THEN parse_f64(v.lit)
    ELSE IF v.n = <<>> THEN Some(F64(0, 0, <<>>))
    ELSE Some(RoundRatio(IF v.kind = "NegInt" THEN 1 ELSE 0, v.n, FromInt(1)))

\* Value::to_string: compact JSON, the members of an object in key order
RECURSIVE Value_to_string(_)
Value_to_string(v) ==
    CASE v.t = "Null" -> Str_null
      [] v.t = "Bool" -> IF v.b THEN Str_true ELSE Str_false
      [] v.t = "Number" /\ v.kind = "PosInt" -> Decimal(v.n)
      [] v.t = "Number" /\ v.kind = "NegInt" -> <<45>> \o Decimal(v.n)
      [] v.t = "Number" /\ v.kind = "Float" -> v.lit
      [] v.t = "String" -> json_string(v.s)
      [] v.t = "Array" ->
            json_array([i \in 1..Len(v.items) |-> Value_to_string(v.items[i])])
      [] v.t = "Object" ->
            json_object([i \in 1..Len(v.entries) |->
                            <<v.entries[i].key, Value_to_string(v.entries[i].value)>>])

---------------------------------------------------------------------------
(* parse_safetensors (safetensors/mod.rs).                                 *)

MAX_HEADER_SIZE == 104857600     \* 100 * 1024 * 1024

Str_metadata_key   == <<95, 95, 109, 101, 116, 97, 100, 97, 116, 97, 95, 95>>     \* "__metadata__"
Str_data_offsets   == <<100, 97, 116, 97, 95, 111, 102, 102, 115, 101, 116, 115>>  \* "data_offsets"
Str_data_offsets_0 == <<100, 97, 116, 97, 95, 111, 102, 102, 115, 101, 116, 115, 91, 48, 93>>
Str_data_offsets_1 == <<100, 97, 116, 97, 95, 111, 102, 102, 115, 101, 116, 115, 91, 49, 93>>

HeaderTooLarge(size, max) ==
    [error |-> "HeaderTooLarge", size |-> size, max |-> max]
InvalidByteLength(name, offset, end) ==
    [error |-> "InvalidByteLength", name |-> name, offset |-> offset, end |-> end]
MissingField(name, field) ==
    [error |-> "MissingField", name |-> name, field |-> field]
InvalidShape(name, index) ==
    [error |-> "InvalidShape", name |-> name, index |-> index]

\* the size is read: the ceiling
header_size_checked(size) ==
    IF ~size.ok THEN size
    ELSE IF BigLess(FromInt(MAX_HEADER_SIZE), size.value)
    THEN Fail(HeaderTooLarge(size.value, MAX_HEADER_SIZE), size.pos, size.allocs)
    ELSE size

\* the size compared with the ceiling only once its buffer is allocated
header_size_allocating_first(size) ==
    IF ~size.ok THEN size
    ELSE IF BigLess(FromInt(MAX_HEADER_SIZE), size.value)
    THEN Fail(HeaderTooLarge(size.value, MAX_HEADER_SIZE), size.pos,
              Append(size.allocs, Alloc("header", size.value)))
    ELSE size

read_header_size_allocating_first(inp, p, al) ==
    header_size_allocating_first(read_u64(inp, p, al))

\* read_header_size: 8 bytes, little-endian, as usize (64 bits wide)
read_header_size(inp, p, al) == header_size_checked(read_u64(inp, p, al))

\* JSON white space, which serde_json skips before and after the value
IsJsonSpace(c) == c \in {32, 9, 10, 13}

Trimmed(text) ==
    LET inside == {i \in 1..Len(text) : ~IsJsonSpace(text[i])}
    IN  IF inside = {} THEN <<>>
        ELSE SubSeq(text, CHOOSE i \in inside : \A j \in inside : i <= j,
                          CHOOSE i \in inside : \A j \in inside : j <= i)

\* String::from_utf8 of a whole buffer: the characters start at the bytes that
\* are not continuation bytes, and every one of them has to decode
String_from_utf8(bytes) ==
    LET starts == {i \in 1..Len(bytes) : ~IsContinuation(bytes[i])}
        rank   == [i \in 1..Len(bytes) |-> Cardinality({j \in starts : j <= i})]
        first  == [k \in 1..Cardinality(starts) |->
                      CHOOSE i \in starts : rank[i] = k]
        chars  == [k \in 1..Len(first) |->
                      from_utf8(SubSeq(bytes, first[k],
                                       IF k = Len(first) THEN Len(bytes)
                                       ELSE first[k + 1] - 1),
                                1, <<>>)]
    IN  IF bytes # <<>> /\ IsContinuation(bytes[1]) THEN None
        ELSE IF \E k \in 1..Len(chars) : ~chars[k].some THEN None
        ELSE Some([k \in 1..Len(chars) |-> chars[k].v[1]])

\* Value::get on the members of an object
json_get(members, key) ==
    IF BTreeMap_contains(members, key) THEN Some(BTreeMap_get(members, key))
    ELSE None

\* str::to_lowercase, on ASCII text
to_lowercase(str) ==
    [i \in 1..Len(str) |-> IF 65 <= str[i] /\ str[i] <= 90 THEN str[i] + 32 ELSE str[i]]

\* tensor_obj.get("dtype").and_then(|v| v.as_str()), lower-cased
dtype_of(field) ==
    IF field.some /\ field.v.t = "String" THEN Some(to_lowercase(field.v.s)) ELSE None

descriptor_dtype(tensor_obj) == dtype_of(json_get(tensor_obj, Str_dtype))

\* the dimensions of the array: the first that is not a u64 ends the parse
dims_of(key, arr, bad) ==
    IF bad # {}
    THEN Err(InvalidShape(key, (CHOOSE i \in bad : \A j \in bad : i <= j) - 1))
    ELSE Ok([i \in 1..Len(arr) |-> as_u64(arr[i]).v])

\* tensor_obj.get("shape").and_then(|v| v.as_array())
shape_of(key, field) ==
    IF field.some /\ field.v.t = "Array"
    THEN dims_of(key, field.v.items,
                 {i \in 1..Len(field.v.items) : ~as_u64(field.v.items[i]).some})
    ELSE Err(MissingField(key, Str_shape))

descriptor_shape(key, tensor_obj) == shape_of(key, json_get(tensor_obj, Str_shape))

\* tensor_obj.get("data_offsets").and_then(|v| v.as_array()): two u64 at least
offsets_of(key, field) ==
    IF field.some /\ field.v.t = "Array" /\ Len(field.v.items) >= 2
    THEN (IF ~as_u64(field.v.items[1]).some
          THEN Err(MissingField(key, Str_data_offsets_0))
          ELSE IF ~as_u64(field.v.items[2]).some
          THEN Err(MissingField(key, Str_data_offsets_1))
          ELSE Ok(<<as_u64(field.v.items[1]).v, as_u64(field.v.items[2]).v>>))
    ELSE Err(MissingField(key, Str_data_offsets))

descriptor_offsets(key, tensor_obj) ==
    offsets_of(key, json_get(tensor_obj, Str_data_offsets))

\* the tensor of a descriptor whose end may be at its offset
descriptor_tensor_allowing_empty(key, dtype, shape, data_offsets) ==
    IF ~dtype.some THEN Err(MissingField(key, Str_dtype))
    ELSE IF shape.kind = "Err" THEN shape
    ELSE IF data_offsets.kind = "Err" THEN data_offsets
    ELSE IF BigLess(data_offsets.value[2], data_offsets.value[1])
    THEN Err(InvalidByteLength(key, data_offsets.value[1], data_offsets.value[2]))
    ELSE Ok(Tensor(key, dtype.v, shape.value,
                   BigSub(data_offsets.value[2], data_offsets.value[1])))

\* the fields in the order the code takes them, then end <= offset, then
\* byte_length = end - offset
descriptor_tensor(key, dtype, shape, data_offsets) ==
    IF ~dtype.some THEN Err(MissingField(key, Str_dtype))
    ELSE IF shape.kind = "Err" THEN shape
    ELSE IF data_offsets.kind = "Err" THEN data_offsets
    ELSE IF BigLeq(data_offsets.value[2], data_offsets.value[1])
    THEN Err(InvalidByteLength(key, data_offsets.value[1], data_offsets.value[2]))
    ELSE Ok(Tensor(key, dtype.v, shape.value,
                   BigSub(data_offsets.value[2], data_offsets.value[1])))

tensor_of_descriptor(key, tensor_obj) ==
    descriptor_tensor(key, descriptor_dtype(tensor_obj),
                      descriptor_shape(key, tensor_obj),
                      descriptor_offsets(key, tensor_obj))

\* the CanonicalValue of a member of __metadata__
number_value(mv, i, f) ==
    IF i.some THEN IntValue("Int", i.v)
    ELSE IF f.some THEN Float(f.v)
    ELSE String(Value_to_string(mv))

metadata_value(mv) ==
    CASE mv.t = "String" -> String(mv.s)
      [] mv.t = "Number" -> number_value(mv, as_i64(mv), as_f64(mv))
      [] mv.t = "Bool" -> Bool(mv.b)
      [] mv.t = "Null" -> Null
      [] OTHER -> String(Value_to_string(mv))

\* for (mk, mv) in meta_obj { metadata.insert(mk.clone(), cv) }, from member i
RECURSIVE metadata_inserted(_, _, _)
metadata_inserted(meta_obj, i, acc) ==
    IF i > Len(meta_obj) THEN acc
    ELSE metadata_inserted(meta_obj, i + 1,
             BTreeMap_insert(acc, meta_obj[i].key, metadata_value(meta_obj[i].value)))

---------------------------------------------------------------------------
(* The headers parse_safetensors is run on.                                *)

\* the object of a sequence of <<key, value>>
RECURSIVE MapOf(_)
MapOf(pairs) ==
    IF pairs = <<>> THEN BTreeMap_new
    ELSE BTreeMap_insert(MapOf(SubSeq(pairs, 1, Len(pairs) - 1)),
                         pairs[Len(pairs)][1], pairs[Len(pairs)][2])

JInts(ns) == JArray([i \in 1..Len(ns) |-> JPosInt(FromInt(ns[i]))])

\* each field of a descriptor: absent, well formed, or of a wrong kind
DtypeFields == {None, Some(JString(<<70, 51, 50>>)), Some(JPosInt(FromInt(5)))}

ShapeFields ==
    {None, Some(JInts(<<2, 3>>)), Some(JInts(<<>>)),
     Some(JArray(<<JString(<<120>>)>>)),
     Some(JArray(<<JPosInt(FromInt(2)), JNegInt(FromInt(1))>>)),
     Some(JArray(<<JPosInt(FromInt(2)), JFloat(<<49, 46, 53>>)>>)),
     Some(JString(<<120>>))}

OffsetsFields ==
    {None, Some(JInts(<<0, 24>>)), Some(JInts(<<10, 5>>)), Some(JInts(<<5, 5>>)),
     Some(JInts(<<0>>)), Some(JInts(<<0, 24, 99>>)),
     Some(JArray(<<JString(<<97>>), JPosInt(FromInt(24))>>)),
     Some(JArray(<<JPosInt(FromInt(0)), JString(<<98>>)>>)),
     Some(JArray(<<JPosInt(FromInt(0)), JNegInt(FromInt(1))>>)),
     Some(JArray(<<JPosInt(FromInt(1)), JPosInt(U64_MAX)>>)),
     Some(JPosInt(FromInt(7)))}

Member(key, field) == IF field.some THEN <<<<key, field.v>>>> ELSE <<>>

Descriptor(dtype, shape, data_offsets) ==
    JObject(MapOf(Member(Str_dtype, dtype) \o Member(Str_shape, shape)
                  \o Member(Str_data_offsets, data_offsets)))

Descriptors ==
    {Descriptor(d, sh, off) : d \in DtypeFields, sh \in ShapeFields,
                              off \in OffsetsFields}

GoodDescriptor ==
    Descriptor(Some(JString(<<70, 51, 50>>)), Some(JInts(<<2, 3>>)), Some(JInts(<<0, 24>>)))

\* descriptors that fail, each in its own way
BadDescriptors ==
    {Descriptor(None, Some(JInts(<<2, 3>>)), Some(JInts(<<0, 24>>))),
     Descriptor(Some(JString(<<70, 51, 50>>)), Some(JInts(<<2, 3>>)), Some(JInts(<<5, 5>>)))}

\* the objects under "__metadata__"
MetadataObjects ==
    {JObject(MapOf(<<<<<<102, 111, 114, 109, 97, 116>>, JString(<<112, 116>>)>>>>)),
     JObject(MapOf(<<<<<<110>>, JPosInt(FromInt(1))>>, <<<<109>>, JNegInt(FromInt(1))>>>>)),
     JObject(MapOf(<<<<<<102>>, JFloat(<<49, 46, 53>>)>>, <<<<98>>, JBool(TRUE)>>>>)),
     JObject(MapOf(<<<<<<110>>, JPosInt(U64_MAX)>>, <<<<122>>, JNull>>>>)),
     JObject(MapOf(<<<<<<97, 114, 114>>, JInts(<<1>>)>>, <<<<111>>, JObject(BTreeMap_new)>>>>))}

\* what a member that is not an object may be
PlainValues ==
    {JNull, JBool(FALSE), JPosInt(FromInt(5)), JString(<<120>>), JInts(<<1>>)}

TensorKey == <<119>>     \* "w"

HeaderObjects ==
    {JObject(MapOf(<<<<TensorKey, d>>>>)) : d \in Descriptors \cup PlainValues}
    \cup {JObject(MapOf(<<<<Str_metadata_key, m>>, <<TensorKey, GoodDescriptor>>>>)) :
            m \in MetadataObjects \cup PlainValues}
    \cup {JObject(MapOf(<<<<k, GoodDescriptor>>>>)) : k \in {<<>>, <<87>>, <<233>>}}
    \cup {JObject(MapOf(<<<<<<97>>, d1>>, <<<<98>>, d2>>>>)) :
            d1, d2 \in {GoodDescriptor} \cup BadDescriptors \cup {JPosInt(FromInt(5))}}
    \cup {JObject(BTreeMap_new)}

HeaderValues == HeaderObjects \cup PlainValues

\* the text of every header value
HeaderTexts == [v \in HeaderValues |-> Value_to_string(v)]

\* serde_json::from_str on the texts of the header values: the value that the
\* text writes, white space around it skipped; no value for any other text
value_of_text(text) ==
    IF \E v \in HeaderValues : HeaderTexts[v] = text
    THEN Some(CHOOSE v \in HeaderValues : HeaderTexts[v] = text)
    ELSE None

from_str(text) == value_of_text(Trimmed(text))

---------------------------------------------------------------------------
(* parse_safetensors, step by step.                                        *)

\* as_object(): the members of a header that is an object
header_object(json, q, al) ==
    IF json.some /\ json.v.t = "Object" THEN Done(json.v.entries, q, al)
    ELSE Fail(InvalidHeader, q, al)

\* String::from_utf8(header_buf), then serde_json::from_str
header_parsed(str, q, al) ==
    IF str.some THEN header_object(from_str(str.v), q, al)
    ELSE Fail(InvalidHeader, q, al)

\* read_exact into the buffer of n bytes
header_in_buffer(inp, p, n, al) ==
    IF p + n > Len(inp) THEN Fail(IoError, p, al)
    ELSE header_parsed(String_from_utf8(SubSeq(inp, p + 1, p + n)), p + n, al)

\* vec![0u8; header_size], read_exact, from_utf8, from_str, as_object
read_header(inp, p, al, size) ==
    header_in_buffer(inp, p, ToInt(size), Append(al, Alloc("header", size)))

StReturn(res, p, al) ==
    /\ spc' = "done"
    /\ st_outcome' = res
    /\ st_pos' = p
    /\ st_allocs' = al

HeaderSizeRead(size) ==
    IF ~size.ok
    THEN StReturn(Err(size.err), size.pos, size.allocs) /\ UNCHANGED header_size
    ELSE /\ header_size' = size.value
         /\ spc' = "header"
         /\ st_pos' = size.pos
         /\ st_allocs' = size.allocs
         /\ UNCHANGED st_outcome

\* let header_size = read_header_size(reader)?
ReadHeaderSize ==
    /\ spc = "size"
    /\ HeaderSizeRead(read_header_size(st_input, st_pos, st_allocs))
    /\ UNCHANGED <<st_input, obj, entries_read, st_metadata, st_tensors,
                   valueVars, artVars, ggufVars>>

HeaderRead(h) ==
    IF ~h.ok THEN StReturn(Err(h.err), h.pos, h.allocs) /\ UNCHANGED obj
    ELSE /\ obj' = h.value
         /\ spc' = "entries"
         /\ st_pos' = h.pos
         /\ st_allocs' = h.allocs
         /\ UNCHANGED st_outcome

\* the header buffer, its text, its JSON value, its members
ReadHeader ==
    /\ spc = "header"
    /\ HeaderRead(read_header(st_input, st_pos, st_allocs, header_size))
    /\ UNCHANGED <<st_input, header_size, entries_read, st_metadata, st_tensors,
                   valueVars, artVars, ggufVars>>

\* the loop goes on to the next member
NextEntry ==
    /\ entries_read' = entries_read + 1
    /\ UNCHANGED <<spc, st_pos, st_allocs, st_outcome>>

\* tensors.insert(key.clone(), Tensor { name: key.clone(), .. }), or the error
TensorEntry(key, tensor) ==
    IF tensor.kind = "Err"
    THEN /\ StReturn(tensor, st_pos, st_allocs)
         /\ UNCHANGED <<entries_read, st_metadata, st_tensors>>
    ELSE /\ st_tensors' = BTreeMap_insert(st_tensors, key, tensor.value)
         /\ NextEntry
         /\ UNCHANGED st_metadata

\* the body of `for (key, value) in obj`
EntryRead(key, value) ==
    IF key = Str_metadata_key
    THEN /\ st_metadata' =
                IF value.t = "Object"
                THEN metadata_inserted(value.entries, 1, st_metadata)
                ELSE st_metadata
         /\ NextEntry
         /\ UNCHANGED st_tensors
    ELSE IF value.t = "Object"
    THEN TensorEntry(key, tensor_of_descriptor(key, value.entries))
    ELSE NextEntry /\ UNCHANGED <<st_metadata, st_tensors>>

ReadEntry ==
    /\ spc = "entries"
    /\ entries_read < Len(obj)
    /\ EntryRead(obj[entries_read + 1].key, obj[entries_read + 1].value)
    /\ UNCHANGED <<st_input, header_size, obj, valueVars, artVars, ggufVars>>

\* Ok(Artifact { format: Safetensors, gguf_version: None, metadata, tensors })
FinishSafetensors ==
    /\ spc = "entries"
    /\ entries_read = Len(obj)
    /\ StReturn(Ok(Artifact("Safetensors", None, st_metadata, st_tensors)),
                st_pos, st_allocs)
    /\ UNCHANGED <<st_input, header_size, obj, entries_read, st_metadata,
                   st_tensors, valueVars, artVars, ggufVars>>

NextSafetensors == ReadHeaderSize \/ ReadHeader \/ ReadEntry \/ FinishSafetensors

\* the UTF-8 bytes of a text of code points below U+0800
utf8_bytes(text) ==
    Flatten([i \in 1..Len(text) |->
                IF text[i] < 128 THEN <<text[i]>>
                ELSE <<192 + (text[i] \div 64), 128 + (text[i] % 64)>>])

\* a file: the length of the header, the header, the tensor data
Framed(body, data) == U64(Len(body)) \o body \o data

GoodHeaderText ==
    utf8_bytes(Value_to_string(JObject(MapOf(<<<<TensorKey, GoodDescriptor>>>>))))

\* headers that are not the text of a JSON value, and some that are, padded
RawHeaders ==
    {<<110, 111, 116, 32, 118, 97, 108, 105, 100, 32, 106, 115, 111, 110>>,     \* "not valid json"
     <<255>>, <<>>, <<123, 34, 119, 34, 58, 233, 125>>,
     GoodHeaderText \o <<32, 32, 10>>, <<32>> \o GoodHeaderText}

\* declared lengths that are not the length of what follows
DeclaredSizes ==
    {FromInt(Len(GoodHeaderText) + 1), FromInt(Len(GoodHeaderText) - 1),
     FromInt(MAX_HEADER_SIZE), FromInt(MAX_HEADER_SIZE + 1),
     BigAdd(Pow2(32), FromInt(Len(GoodHeaderText))), U64_MAX}

StStreams ==
    {Framed(utf8_bytes(HeaderTexts[v]), <<0, 0, 0, 0>>) : v \in HeaderValues}
    \cup {Framed(raw, <<>>) : raw \in RawHeaders}
    \cup {LE(n, 8) \o GoodHeaderText : n \in DeclaredSizes}
    \cup {<<>>, <<58, 0, 0>>}

InitSafetensors ==
    /\ spc = "size"
    /\ st_input \in StStreams
    /\ st_pos = 0
    /\ st_allocs = <<>>
    /\ header_size = <<>>
    /\ obj = <<>>
    /\ entries_read = 0
    /\ st_metadata = BTreeMap_new /\ st_tensors = BTreeMap_new
    /\ st_outcome = None
    /\ ValueIdle /\ ArtIdle /\ GgufIdle

SpecSafetensors == InitSafetensors /\ [][NextSafetensors]_vars

---------------------------------------------------------------------------
(* Properties of parse_safetensors (SpecSafetensors).                      *)

\* the length that the first 8 bytes of the file declare
DeclaredSize == Norm(SubSeq(st_input, 1, 8))

\* C13: a declared header length above 100 MiB (104,857,600) ends the parse
\* with HeaderTooLarge when only the 8 bytes of the length have been read: no
\* byte of the header is read and no buffer is allocated before the check; a
\* length of exactly 100 MiB passes the check.
C13_HeaderCeiling ==
    /\ \A i \in 1..Len(st_allocs) :
            BigLeq(st_allocs[i].size, FromInt(MAX_HEADER_SIZE))
    /\ (Len(st_input) >= 8 /\ spc # "size") =>
            IF BigLess(FromInt(MAX_HEADER_SIZE), DeclaredSize)
            THEN /\ spc = "done"
                 /\ st_outcome = Err(HeaderTooLarge(DeclaredSize, MAX_HEADER_SIZE))
                 /\ st_pos = 8
                 /\ st_allocs = <<>>
            ELSE /\ header_size = DeclaredSize
                 /\ spc = "done" =>
                        (st_outcome.kind = "Err" =>
                            st_outcome.error.error # "HeaderTooLarge")
                 /\ spc \in {"entries", "done"} =>
                        st_allocs = <<Alloc("header", DeclaredSize)>>

\* a length of 100 MiB + 1 is refused at offset 8 with nothing allocated
C13_Witness ==
    /\ spc = "done"
    /\ Len(st_input) >= 8
    /\ DeclaredSize = FromInt(MAX_HEADER_SIZE + 1)
    /\ st_outcome = Err(HeaderTooLarge(FromInt(MAX_HEADER_SIZE + 1), MAX_HEADER_SIZE))
    /\ st_pos = 8
    /\ st_allocs = <<>>

\* a length of exactly 100 MiB passes the check: its buffer is allocated
C13_AtCeilingPasses ==
    (spc = "done" /\ Len(st_input) >= 8 /\ DeclaredSize = FromInt(MAX_HEADER_SIZE)) =>
        /\ st_outcome = Err(IoError)
        /\ st_allocs = <<Alloc("header", FromInt(MAX_HEADER_SIZE))>>

\* member i of the header has been taken by the loop: it was accepted, or the
\* parse ended on it
Taken(i) == entries_read >= i \/ (spc = "done" /\ entries_read = i - 1)

\* the parse ended on member i with the error e
EndedOn(i, e) == spc = "done" /\ entries_read = i - 1 /\ st_outcome = Err(e)

HasKind(members, key, kind) ==
    \E j \in 1..Len(members) : members[j].key = key /\ members[j].value.t = kind

IsCount(v) == v.t = "Number" /\ v.kind = "PosInt"

\* data_offsets is an array that starts with two non-negative integers
HasOffsets(members) ==
    \E j \in 1..Len(members) :
        /\ members[j].key = Str_data_offsets
        /\ members[j].value.t = "Array"
        /\ Len(members[j].value.items) >= 2
        /\ IsCount(members[j].value.items[1])
        /\ IsCount(members[j].value.items[2])

\* every element of shape is a non-negative integer (any other element is
\* InvalidShape, which the code reports before it looks at data_offsets)
ShapeIsCounts(members) ==
    \A j \in 1..Len(members) :
        members[j].key = Str_shape =>
            \A d \in 1..Len(members[j].value.items) :
                IsCount(members[j].value.items[d])

\* the first of dtype, shape, data_offsets that value v does not supply
FirstMissing(v) ==
    IF v.t # "Object" \/ ~HasKind(v.entries, Str_dtype, "String") THEN Str_dtype
    ELSE IF ~HasKind(v.entries, Str_shape, "Array") THEN Str_shape
    ELSE IF ~HasOffsets(v.entries) THEN Str_data_offsets
    ELSE <<>>

\* C14: every top-level key other than __metadata__ is a tensor descriptor
\* that has to supply dtype (a string), shape (an array) and data_offsets (an
\* array of two non-negative integers): when one is absent or of the wrong
\* kind the parse fails with MissingField naming the tensor and the first such
\* field in the order dtype, shape, data_offsets; no key is skipped silently
\* and no tensor gets a defaulted field.
C14_DescriptorFields ==
    \A i \in 1..Len(obj) :
        (obj[i].key # Str_metadata_key /\ Taken(i)) =>
            IF FirstMissing(obj[i].value) = Str_data_offsets
            THEN ShapeIsCounts(obj[i].value.entries) =>
                    \E field \in {Str_data_offsets, Str_data_offsets_0,
                                   Str_data_offsets_1} :
                        EndedOn(i, MissingField(obj[i].key, field))
            ELSE IF FirstMissing(obj[i].value) # <<>>
            THEN EndedOn(i, MissingField(obj[i].key, FirstMissing(obj[i].value)))
            ELSE entries_read >= i => obj[i].key \in KeySet(st_tensors)

Offsets(v) == BTreeMap_get(v.entries, Str_data_offsets).items

\* C15: a descriptor whose data_offsets [start, end] has end <= start (end =
\* start included) fails the parse with InvalidByteLength; otherwise
\* byte_length = end - start.  So every tensor of a returned artifact has
\* byte_length >= 1.
C15_ByteLengthPositive ==
    /\ \A i \in 1..Len(st_tensors) : st_tensors[i].value.byte_length # <<>>
    /\ (spc = "done" /\ st_outcome.kind = "Ok") =>
            \A i \in 1..Len(st_outcome.value.tensors) :
                BigLeq(FromInt(1), st_outcome.value.tensors[i].value.byte_length)
    /\ \A i \in 1..Len(obj) :
        (/\ obj[i].key # Str_metadata_key /\ Taken(i)
         /\ FirstMissing(obj[i].value) = <<>>
         /\ ShapeIsCounts(obj[i].value.entries)) =>
            IF BigLeq(Offsets(obj[i].value)[2].n, Offsets(obj[i].value)[1].n)
            THEN EndedOn(i, InvalidByteLength(obj[i].key,
                                              Offsets(obj[i].value)[1].n,
                                              Offsets(obj[i].value)[2].n))
            ELSE /\ entries_read >= i
                 /\ BigAdd(BTreeMap_get(st_tensors, obj[i].key).byte_length,
                           Offsets(obj[i].value)[1].n)
                        = Offsets(obj[i].value)[2].n

\* data_offsets [5, 5]: end = start is refused
C15_Witness ==
    /\ spc = "done"
    /\ st_outcome = Err(InvalidByteLength(TensorKey, FromInt(5), FromInt(5)))

\* C16: in every artifact that a parser returns, every tensor has a name that
\* is not empty, the names are unique, and the name of a tensor is the key it
\* is stored under.
C16_TensorNames ==
    (spc = "done" /\ st_outcome.kind = "Ok") =>
        /\ \A i \in 1..Len(st_outcome.value.tensors) :
                /\ st_outcome.value.tensors[i].value.name # <<>>
                /\ st_outcome.value.tensors[i].value.name
                        = st_outcome.value.tensors[i].key
        /\ \A i, j \in 1..Len(st_outcome.value.tensors) :
                st_outcome.value.tensors[i].value.name
                    = st_outcome.value.tensors[j].value.name => i = j

===========================================================================
